---- MODULE Spec2Model ----
(***************************************************************************)
(* A model of the aipipe worker: the request handler of src/src/worker.js, *)
(* the provider adapters and the SSE splitter of src/src/providers.js, the *)
(* token helpers of src/src/utils.js and the cost ledger (src/cost.js,     *)
(* which is not part of the sources at hand and is modelled from its       *)
(* description).                                                           *)
(*                                                                         *)
(* Costs are integers: one unit is one millionth of a dollar, so that the  *)
(* division by 1e6 of tokenCost is the change of unit and the rates of the *)
(* pricing tables are units per token.  Floating point is not modelled.    *)
(* Dates (YYYY-MM-DD in UTC) are day numbers.                              *)
(***************************************************************************)
EXTENDS Integers, Sequences, FiniteSets, TLC

\* ------------------------------------------------------------------ bounds
\* Number of request handlers that can be in flight at the same time.
MaxReq == 2
\* Last day of the model calendar (days are 0..MaxDay).
MaxDay == 2
\* Largest cost a ledger row holds in the model (guards cap the adds).
MaxCost == 4
\* Number of times the operator rotates a salt.
MaxRotations == 1
\* Longest SSE stream (in chunks) a response carries.
MaxChunks == 2
\* Number of ledger writes (add, setCost) of a run.
MaxOps == 3
\* Longest docs and topics arrays of a similarity body.
MaxDocs == 2
\* Number of times OpenRouter publishes a new models list.
MaxLists == 1

\* ------------------------------------------------------- values and config
\* JavaScript's undefined and null (both are "nullish" for ?? and ?.).
Undef == "undefined"

Reqs == 1..MaxReq
Dates == 0..MaxDay

\* The e-mail addresses of the model.
Emails == {"user@example.com", "admin@example.com", "blocked@example.com", "guest@other.org"}

\* "@" + email.split("@").at(-1)
domainOf(email) ==
    CASE email = "guest@other.org" -> "@other.org"
      [] OTHER -> "@example.com"

\* env.AIPIPE_SECRET, and a key that is not the secret.
AIPIPE_SECRET == "secret"
OtherKey == "not-the-secret"

\* The admin set: (env.ADMIN_EMAILS || "").split(/[,\s]+/)
admins == {"admin@example.com"}

\* The budget policy map of the example configuration (limits in cost
\* units, windows in days of the model calendar).
budgetExample ==
    [key \in {"*", "blocked@example.com", "user@example.com", "@example.com"} |->
        CASE key = "*" -> [limit |-> 1, days |-> 2]
          [] key = "blocked@example.com" -> [limit |-> 0, days |-> 1]
          [] key = "user@example.com" -> [limit |-> 3, days |-> 2]
          [] OTHER -> [limit |-> 2, days |-> 1]]

\* A deployment whose policy map has neither a "*" nor a domain entry.
budgetNoDefault ==
    [key \in {"user@example.com"} |-> [limit |-> 3, days |-> 2]]

BudgetConfigs == {budgetExample, budgetNoDefault}

\* The salt map of the example configuration.
saltExample ==
    [e \in Emails |-> IF e = "user@example.com" THEN "random-text" ELSE Undef]

\* The texts an operator rotates a salt to, in the order they are used.
rotatedSalt(n) == IF n = 1 THEN "rotated-1" ELSE IF n = 2 THEN "rotated-2" ELSE "rotated-3"

SaltTexts == {"random-text"} \cup {rotatedSalt(n) : n \in 1..MaxRotations}

\* --------------------------------------------------------------- tokens
\* A bearer credential.  kind "jwt" is a compact JWS carrying {email, salt?}
\* signed with `key`; kind "native" is a provider key (sk-or-, sk-, AIza);
\* kind "text" is any other non-empty text.  An absent salt is Undef.
Jwt(email, s, key) == [kind |-> "jwt", email |-> email, salt |-> s, key |-> key]
NativeKey(prefix) == [kind |-> "native", email |-> prefix, salt |-> Undef, key |-> Undef]
OtherText == [kind |-> "text", email |-> Undef, salt |-> Undef, key |-> Undef]
Empty == [kind |-> "empty", email |-> Undef, salt |-> Undef, key |-> Undef]

NativePrefixes == {"sk-or-", "sk-", "AIza"}

\* A header map without headers.
NoHeaders == [k \in {} |-> Empty]

\* A mint that leaves the salt out of the payload.
createTokenNoSalt(email, secret, s) == Jwt(email, Undef, secret)

\* new jose.SignJWT({ email, ...extraParams }).setProtectedHeader({alg: "HS256"}).sign(secret)
createToken(email, secret, s) == Jwt(email, s, secret)

\* jose.jwtVerify(token, secretBytes): the payload of a JWS whose signature
\* validates under the secret, an error for anything else.
jwtVerify(token, secret) ==
    IF token.kind = "jwt" /\ token.key = secret
    THEN [error |-> Undef, email |-> token.email, salt |-> token.salt]
    ELSE [error |-> "invalid", email |-> Undef, salt |-> Undef]

\* Verification of the signature alone.
validateTokenNoSalt(token, secret, saltMap) ==
    jwtVerify(token, secret)

\* No verification: whatever is presented stands for an identity.
validateTokenNoVerify(token, secret, saltMap) ==
    IF token.kind = "jwt"
    THEN [error |-> Undef, email |-> token.email, salt |-> token.salt]
    ELSE [error |-> Undef, email |-> "user@example.com", salt |-> Undef]

\* Only a salt the token carries is compared with the salt map.
validateTokenSaltIfCarried(token, secret, saltMap) ==
    LET payload == jwtVerify(token, secret) IN
    IF payload.error # Undef THEN payload
    ELSE IF payload.salt # Undef /\ saltMap[payload.email] # Undef
                /\ saltMap[payload.email] # payload.salt
         THEN [error |-> "no longer valid", email |-> Undef, salt |-> Undef]
         ELSE payload

\* validateToken(token, secret): the payload, or {error}.
validateToken(token, secret, saltMap) ==
    LET payload == jwtVerify(token, secret) IN
    IF payload.error # Undef THEN payload
    ELSE IF saltMap[payload.email] # Undef /\ saltMap[payload.email] # payload.salt
         THEN [error |-> "no longer valid", email |-> Undef, salt |-> Undef]
         ELSE payload

\* The Authorization header: absent, or a value that is a credential with or
\* without the "Bearer " prefix in front of it.
NoHeader == [present |-> FALSE, bearer |-> FALSE, cred |-> Empty]
Header(bearer, cred) == [present |-> TRUE, bearer |-> bearer, cred |-> cred]

\* (request.headers.get("Authorization") ?? "").replace(/^Bearer\s*/, "").trim()
bearerToken(header) == IF header.present THEN header.cred ELSE Empty

\* A lookup in which the domain entry comes before the entry of the email.
budgetForDomainFirst(policy, email) ==
    IF domainOf(email) \in DOMAIN policy THEN policy[domainOf(email)]
    ELSE IF email \in DOMAIN policy THEN policy[email]
    ELSE IF "*" \in DOMAIN policy THEN policy["*"]
    ELSE [limit |-> 0, days |-> 1]

\* budget[payload.email] ?? budget[domain] ?? budget["*"] ?? { limit: 0, days: 1 }
budgetFor(policy, email) ==
    IF email \in DOMAIN policy THEN policy[email]
    ELSE IF domainOf(email) \in DOMAIN policy THEN policy[domainOf(email)]
    ELSE IF "*" \in DOMAIN policy THEN policy["*"]
    ELSE [limit |-> 0, days |-> 1]

\* ------------------------------------------------------ pricing and usage
\* An undefined number (a counter or a rate that is not there).
NoNum == -1

\* pricing.json (openai, gemini): model -> <<input rate, output rate>>.
openaiCost ==
    [m \in {"gpt-4.1-nano", "text-embedding-3-small"} |->
        IF m = "gpt-4.1-nano" THEN <<1, 2>> ELSE <<1, 0>>]

geminiCost == [m \in {"gemini-2.5-flash"} |-> <<1, 2>>]

\* The OpenRouter models directory (https://openrouter.ai/api/v1/models):
\* model id -> pricing.
openrouterDirectory ==
    [m \in {"openrouter/test-model"} |->
        [prompt |-> 1, completion |-> 1, internal_reasoning |-> 1, image |-> 1, request |-> 1]]

\* The models list OpenRouter serves after it has published n new ones: the
\* first is openrouterDirectory; a later one reprices openrouter/test-model
\* and lists openrouter/free-model, whose rates are 0.
ModelsList(n) ==
    IF n = 0 THEN openrouterDirectory
    ELSE [m \in {"openrouter/test-model", "openrouter/free-model"} |->
            IF m = "openrouter/test-model"
            THEN [prompt |-> 1 + n, completion |-> 1, internal_reasoning |-> 1, image |-> 1,
                  request |-> 1]
            ELSE [prompt |-> 0, completion |-> 0, internal_reasoning |-> 0, image |-> 0,
                  request |-> 0]]

\* let openrouterModels: no list yet (an empty one reads the same).
NoModels == [m \in {} |-> 0]

\* A lookup that downloads the list every time.
getOpenrouterModelAlwaysFetch(model, cached, served) ==
    [cache |-> served, fetches |-> 1]

\* getOpenrouterModel(model): the cache after the lookup and the number of
\* downloads of the list; the model's entry is then read from the cache.
getOpenrouterModel(model, cached, served) ==
    IF model # Undef /\ model \notin DOMAIN cached
    THEN [cache |-> served, fetches |-> 1]
    ELSE [cache |-> cached, fetches |-> 0]

\* A usage object of an upstream body.  Each counter is a number or NoNum;
\* `present` is FALSE for a body that has no (or a null) usage.
\* reasoning_tokens and image_tokens are the counters of
\* completion_tokens_details.
Usage(p, pc, it, c, cc, ot, rt) ==
    [present |-> TRUE, prompt_tokens |-> p, promptTokenCount |-> pc, input_tokens |-> it,
     completion_tokens |-> c, candidatesTokenCount |-> cc, output_tokens |-> ot,
     reasoning_tokens |-> rt, image_tokens |-> NoNum]

NoUsage == [Usage(NoNum, NoNum, NoNum, NoNum, NoNum, NoNum, NoNum) EXCEPT !.present = FALSE]

\* a ?? b on numbers
Coalesce(a, b) == IF a # NoNum THEN a ELSE b

\* a * b || 0 on numbers: undefined operands give NaN, which is falsy
TimesOrZero(a, b) == IF a = NoNum \/ b = NoNum THEN 0 ELSE a * b

\* tokenCost(pricing, model, usage), in cost units
tokenCost(pricing, model, usage) ==
    LET rates == IF model \in DOMAIN pricing THEN pricing[model] ELSE <<0, 0>>
        input == rates[1]
        output == rates[2]
    IN  IF ~usage.present
        THEN 0
        ELSE Coalesce(usage.prompt_tokens, Coalesce(usage.input_tokens, 0)) * input
             + Coalesce(usage.completion_tokens, Coalesce(usage.output_tokens, 0)) * output

\* parseUsage(u)
parseUsage(u) ==
    IF u.present
    THEN [NoUsage EXCEPT
            !.present = TRUE,
            !.prompt_tokens = Coalesce(u.prompt_tokens, Coalesce(u.promptTokenCount, u.input_tokens)),
            !.completion_tokens =
                Coalesce(u.completion_tokens, Coalesce(u.candidatesTokenCount, u.output_tokens))]
    ELSE NoUsage

\* A JSON value of an upstream body or of one SSE data frame: an object
\* {model?, modelVersion?, usage?, usageMetadata?}, or {response: <that>}
\* when `wrapped`.
Event(wrapped, model, modelVersion, usage, usageMetadata) ==
    [wrapped |-> wrapped, model |-> model, modelVersion |-> modelVersion,
     usage |-> usage, usageMetadata |-> usageMetadata]

EmptyEvent == Event(FALSE, Undef, Undef, NoUsage, NoUsage)

\* The object { model, usage }.
Pair(model, usage) == Event(FALSE, model, Undef, usage, NoUsage)

\* event.response ?? event
unwrap(event) == [event EXCEPT !.wrapped = FALSE]

\* s ?? t on strings
CoalesceS(a, b) == IF a # Undef THEN a ELSE b
\* u ?? v on usage objects
CoalesceU(a, b) == IF a.present THEN a ELSE b

Providers == {"openrouter", "openai", "geminiv1beta", "similarity"}

\* providers[provider].parse(event) -> {model, usage}; the similarity
\* adapter has no parse and addCost uses {} for it.
parse(provider, event) ==
    LET e == unwrap(event) IN
    CASE provider = "openrouter" ->
            [model |-> e.model, usage |-> parseUsage(e.usage)]
      [] provider = "openai" ->
            [model |-> e.model, usage |-> e.usage]
      [] provider = "geminiv1beta" ->
            [model |-> CoalesceS(e.model, e.modelVersion),
             usage |-> parseUsage(CoalesceU(e.usage, e.usageMetadata))]
      [] OTHER -> [model |-> Undef, usage |-> NoUsage]

\* The result of a cost calculation: {cost}, or a thrown TypeError.
Cost(c) == [threw |-> FALSE, cost |-> c]
Threw == [threw |-> TRUE, cost |-> 0]

\* providers.openrouter.cost({ model, usage }), models being the cache
\* after the lookup of getOpenrouterModel.
openrouterCost(model, usage, models) ==
    IF model = Undef \/ model \notin DOMAIN models
    THEN Cost(0)
    ELSE LET pricing == models[model] IN
         Cost((IF usage.present THEN TimesOrZero(usage.prompt_tokens, pricing.prompt) ELSE 0)
              + (IF usage.present THEN TimesOrZero(usage.completion_tokens, pricing.completion) ELSE 0)
              + (IF usage.present
                 THEN TimesOrZero(usage.reasoning_tokens, pricing.internal_reasoning) ELSE 0)
              + (IF usage.present THEN TimesOrZero(usage.image_tokens, pricing.image) ELSE 0)
              + pricing.request)

\* providers.geminiv1beta.cost({ model, usage, env, path, body }) as addCost
\* calls it, with { model, usage } alone: path is undefined, so path.match
\* and path.includes throw.
geminiCostOf(model, usage) ==
    IF model = Undef THEN Threw
    ELSE IF model \notin DOMAIN geminiCost THEN Cost(0)
    ELSE IF ~usage.present THEN Threw
    ELSE Cost(tokenCost(geminiCost, model, usage))

\* providers[provider].cost({ model, usage })
cost(provider, model, usage, models) ==
    CASE provider = "openrouter" -> openrouterCost(model, usage, models)
      [] provider = "geminiv1beta" -> geminiCostOf(model, usage)
      [] OTHER -> Cost(tokenCost(openaiCost, model, usage))

\* ---------------------------------------------------------- SSE splitter
\* The text of a stream is a sequence of pieces: a newline, the line prefix
\* "data: ", the JSON text of an event (whole, or its first or second half,
\* so that a chunk boundary can fall inside a frame), or any other text.
NL == [t |-> "nl", ev |-> EmptyEvent]
DataPrefix == [t |-> "data: ", ev |-> EmptyEvent]
OtherPiece == [t |-> "other", ev |-> EmptyEvent]
Json(ev) == [t |-> "json", ev |-> ev]
JsonHead(ev) == [t |-> "head", ev |-> ev]
JsonTail(ev) == [t |-> "tail", ev |-> ev]

\* text.split("\n"): the lines of a text, the last one being what follows
\* the last newline (empty when the text ends with one).
RECURSIVE split(_)
split(text) ==
    IF \A i \in 1..Len(text) : text[i] # NL
    THEN <<text>>
    ELSE LET i == CHOOSE k \in 1..Len(text) :
                      text[k] = NL /\ \A j \in 1..(k - 1) : text[j] # NL
         IN  <<SubSeq(text, 1, i - 1)>> \o split(SubSeq(text, i + 1, Len(text)))

\* line.startsWith("data: ")
startsWithData(line) == Len(line) >= 1 /\ line[1] = DataPrefix

\* JSON.parse(line.slice(6)): the event, or a SyntaxError.
jsonParse(line) ==
    LET rest == SubSeq(line, 2, Len(line)) IN
    IF Len(rest) = 1 /\ rest[1].t = "json"
    THEN [ok |-> TRUE, ev |-> rest[1].ev]
    ELSE IF Len(rest) = 2 /\ rest[1].t = "head" /\ rest[2].t = "tail" /\ rest[1].ev = rest[2].ev
    THEN [ok |-> TRUE, ev |-> rest[1].ev]
    ELSE [ok |-> FALSE, ev |-> EmptyEvent]

\* The state of one splitter: the partial line, the two latched slots, the
\* number of calls of the metering callback and the pair it was called with.
sseStart ==
    [buffer |-> <<>>, model |-> Undef, usage |-> NoUsage, calls |-> 0,
     arg |-> [model |-> Undef, usage |-> NoUsage]]

\* The last value wins: parsed.model ?? model, parsed.usage ?? usage.
latchLast(provider, st, line) ==
    IF startsWithData(line) /\ jsonParse(line).ok
    THEN LET parsed == parse(provider, jsonParse(line).ev) IN
         [st EXCEPT !.model = CoalesceS(parsed.model, st.model),
                    !.usage = CoalesceU(parsed.usage, st.usage)]
    ELSE st

\* The body of lines.forEach: one completed line.
latch(provider, st, line) ==
    IF startsWithData(line) /\ jsonParse(line).ok
    THEN LET parsed == parse(provider, jsonParse(line).ev) IN
         [st EXCEPT !.model = CoalesceS(st.model, parsed.model),
                    !.usage = CoalesceU(st.usage, parsed.usage)]
    ELSE st

RECURSIVE forEachLine(_, _, _)
forEachLine(provider, st, lines) ==
    IF lines = <<>> THEN st
    ELSE forEachLine(provider, latch(provider, st, Head(lines)), Tail(lines))

\* A splitter that calls the metering callback as soon as a usage is latched.
sseTransformChunkMeterEach(provider, st, chunk) ==
    LET lines == split(st.buffer \o chunk)
        done == SubSeq(lines, 1, Len(lines) - 1)
        new == [forEachLine(provider, st, done) EXCEPT !.buffer = lines[Len(lines)]]
    IN  IF new.usage.present
        THEN [new EXCEPT !.calls = @ + 1, !.arg = [model |-> new.model, usage |-> new.usage]]
        ELSE new

\* sseTransform(provider, addCost).transform(chunk, controller): the new
\* state; the chunk itself is enqueued unchanged.
sseTransformChunk(provider, st, chunk) ==
    LET lines == split(st.buffer \o chunk)
        done == SubSeq(lines, 1, Len(lines) - 1)
    IN  [forEachLine(provider, st, done) EXCEPT !.buffer = lines[Len(lines)]]

\* ------------------------------------------------------------ cost ledger
\* The ledger (the AIPipeCost durable object): rows (email, date) -> cost,
\* a function whose domain is the set of keys that have a row.
LedgerNames == {"default", "other"}
EmptyTable == [k \in {} |-> 0]

\* The dates [startDate, endDate] of a window of `days` days ending at `now`:
\* startDate = ymd(now - days * 24h), endDate = ymd(now).
dateRange(days, now) == <<now - days, now>>

RECURSIVE sumRows(_, _)
sumRows(table, keys) ==
    IF keys = {} THEN 0
    ELSE LET k == CHOOSE x \in keys : TRUE IN table[k] + sumRows(table, keys \ {k})

\* cost(email, days): the sum of the rows of email in the window.
ledgerCost(table, email, days, now) ==
    LET range == dateRange(days, now) IN
    sumRows(table, {k \in DOMAIN table : k[1] = email /\ k[2] >= range[1] /\ k[2] <= range[2]})

\* usage(email, days).usage: the rows of email in the window, date -> cost.
ledgerUsage(table, email, days, now) ==
    LET range == dateRange(days, now) IN
    [d \in {x \in range[1]..range[2] : <<email, x>> \in DOMAIN table} |-> table[<<email, d>>]]

\* An add that stores its argument in place of the sum.
ledgerAddOverwrite(table, email, now, delta) ==
    LET k == <<email, now>> IN
    [x \in DOMAIN table \cup {k} |-> IF x = k THEN delta ELSE table[x]]

\* add(email, cost): today's row becomes its old value (0 without a row) plus cost.
ledgerAdd(table, email, now, delta) ==
    LET k == <<email, now>>
        old == IF k \in DOMAIN table THEN table[k] ELSE 0
    IN  [x \in DOMAIN table \cup {k} |-> IF x = k THEN old + delta ELSE table[x]]

\* A setCost that leaves a row that exists as it is.
ledgerSetCostIfAbsent(table, email, date, value) ==
    LET k == <<email, date>> IN
    [x \in DOMAIN table \cup {k} |-> IF x \in DOMAIN table THEN table[x] ELSE value]

\* setCost(email, date, cost): the row becomes cost.
ledgerSetCost(table, email, date, value) ==
    LET k == <<email, date>> IN
    [x \in DOMAIN table \cup {k} |-> IF x = k THEN value ELSE table[x]]

\* One ledger instance for user@example.com, another for everybody else.
aiPipeCostIdPerEmail(email) == IF email = "user@example.com" THEN "other" ELSE "default"

\* env.AIPIPE_COST.idFromName("default"): the ledger instance a handler uses.
aiPipeCostId(email) == "default"

\* ------------------------------------------------------------- requests
\* An item of the docs or topics of a similarity body: a string, an object
\* {type, value}, or anything else.
Doc(text) == [t |-> "string", value |-> text]
DocObject(text) == [t |-> "object", value |-> text]
BadDoc == [t |-> "other", value |-> Undef]

\* items.map(extractValue): the values, when no item makes extractValue throw.
extractValues(items) == [i \in 1..Len(items) |-> items[i].value]
extractThrows(items) == \E i \in 1..Len(items) : items[i].t = "other"

\* The input of the embeddings request of providers.similarity.transform:
\* [...processedDocs, ...targetDocs], targetDocs being the topics when the
\* body has topics and processedDocs when it has none.
similarityInput(q) ==
    LET processedDocs == extractValues(q.docsList)
        targetDocs == IF q.hasTopics THEN extractValues(q.topics) ELSE processedDocs
    IN  processedDocs \o targetDocs

\* The CORS headers of a response: the values of Access-Control-Allow-Origin,
\* -Allow-Methods, -Allow-Headers, -Expose-Headers and -Max-Age (Undef for a
\* header that is not there).
Cors(origin, methods, headers, expose, maxAge) ==
    [origin |-> origin, methods |-> methods, headers |-> headers, expose |-> expose,
     maxAge |-> maxAge]

NoCors == Cors(Undef, Undef, Undef, Undef, Undef)

\* The CORS headers an upstream sends of its own; updateHeaders copies them.
UpstreamCors == Cors("https://upstream.example", "GET", Undef, Undef, Undef)

\* new Headers({ "Access-Control-Max-Age": "86400" })
PreflightHeaders == [NoCors EXCEPT !.maxAge = "86400"]

\* addCors(headers): headers.set of the four headers.
addCors(headers) ==
    [headers EXCEPT !.origin = "*", !.methods = "GET, POST",
                    !.headers = "Authorization, Content-Type", !.expose = "*"]

\* A request: method, first path segment (route), Authorization header and
\* what the routes read of the rest: the second path segment of /admin
\* (action), whether Content-Type is JSON (ctJson), the model the body (or
\* the Gemini path) names, the docs of a similarity body ("ok", "empty" or
\* "none" for a body that is no JSON), the email, date and cost of an admin
\* body or query (email is Undef without ?email=), the Google credential of
\* /token ("verified", "unverified" or "forged") and, for /proxy, what
\* follows the first "/proxy/" of the URL, as the texts that further
\* "/proxy/" separate (empty when the URL has no "/proxy/").  A similarity body whose docs is "ok" has the items
\* docsList and, when hasTopics, the items topics.  acrh is the value of the
\* Access-Control-Request-Headers header.
Request(method, route, header, action, ctJson, model, docs, email, date, cst, credential, target) ==
    [method |-> method, route |-> route, header |-> header, action |-> action,
     ctJson |-> ctJson, model |-> model, docs |-> docs, email |-> email, date |-> date,
     cost |-> cst, credential |-> credential, target |-> target,
     docsList |-> IF docs = "ok" THEN <<Doc("a")>> ELSE <<>>,
     hasTopics |-> FALSE, topics |-> <<>>, acrh |-> Undef]

NoRequest ==
    Request("GET", "none", NoHeader, Undef, FALSE, Undef, "none", Undef, 0, 0, Undef, Undef)

\* An upstream response: the kind of its Content-Type ("json", "sse" or
\* "other"), its status and, for a JSON body, the JSON value.
Response(ct, status, ev) == [ct |-> ct, status |-> status, ev |-> ev]
NoResponse == Response("none", 0, EmptyEvent)

\* The state of one handler.
\*   pc       where the handler is: "idle", "proxy" (awaiting the proxied
\*            fetch), "embedding" (awaiting the embeddings fetch of the
\*            similarity adapter), "upstream" (awaiting the upstream fetch),
\*            "add" (awaiting aiPipeCost.add), "stream" (the response is
\*            returned and its SSE body is being piped), "done"
\*   q        the request
\*   email, limit, days, usage   the locals of fetch of the same names
\*            (usage is NoNum before the admission read)
\*   status, message, body   the response returned to the client (status 0:
\*            none yet); body is a tag for what the body holds
\*   upstream the number of outbound fetches issued
\*   resp     the upstream response
\*   delta    the cost waiting to be added
\*   next     the pc that follows the add
\*   sse, out the splitter's state and the chunks enqueued downstream
\*   received the chunks of the upstream body read so far
\*   failed   the cost calculation or the ledger add threw
\*   charged  how much the row (email, today) of the default ledger grew in
\*            the adds of this handler
\*   writes   the number of ledger writes (add, setCost) of this handler
\*   upstreamKey  the credential of the outbound provider request: "env"
\*            for the provider key the server holds, "client" for the
\*            credential of the request, "none" before there is one
\*   input    the input array of the embeddings request of the similarity
\*            adapter
\*   rows     the usage rows of a /usage answer, date -> cost
\*   fetched  the URL proxyRequest fetches, as the texts that "/proxy/"
\*            separate
\*   xProxyUrl  the X-Proxy-URL header of the response, likewise
\*   sent     the headers of the outbound provider request, name -> value
\*   shown    the credentials the body of the answer holds
\*   listFetches  the number of downloads of the OpenRouter models list
\*   cors     the CORS headers of the response returned to the client
\*   upstreamHeader  the header of the outbound provider request that
\*            carries upstreamKey; the request has no other credential
\*            header ("none" before there is a request)
Idle ==
    [pc |-> "idle", q |-> NoRequest, email |-> Undef, limit |-> NoNum, days |-> NoNum,
     usage |-> NoNum, status |-> 0, message |-> Undef, body |-> "none", upstream |-> 0,
     resp |-> NoResponse, delta |-> 0, next |-> "done", sse |-> sseStart, out |-> <<>>,
     charged |-> 0, writes |-> 0, upstreamKey |-> "none", input |-> <<>>,
     received |-> <<>>, failed |-> FALSE, rows |-> EmptyTable, upstreamHeader |-> "none",
     cors |-> NoCors, fetched |-> <<>>, xProxyUrl |-> <<>>, listFetches |-> 0,
     sent |-> NoHeaders, shown |-> {}]

\* A text of a URL: whether it starts with "http", and the text.
Text(http, text) == [http |-> http, text |-> text]

\* request.url.split("/proxy/"): what precedes the first "/proxy/", then the
\* texts of the target.
splitProxy(q) == <<Text(TRUE, "https://aipipe.org")>> \o q.target

\* jsonResponse({ code, message })
jsonResponse(h, code, message) ==
    [h EXCEPT !.pc = "done", !.status = code, !.message = message, !.body = "json",
              !.cors = addCors(NoCors)]

\* The error of providers[provider].transform, Undef when it returns a
\* target to fetch (or, for similarity, goes on to fetch the embeddings).
transformError(provider, q) ==
    CASE provider = "openai" ->
            IF q.method # "POST" THEN Undef
            ELSE IF ~q.ctJson THEN "Pass a JSON body with {model} so we can calculate cost"
            ELSE IF q.model \notin DOMAIN openaiCost THEN "pricing unknown"
            ELSE Undef
      [] provider = "geminiv1beta" ->
            IF q.method = "POST" /\ q.ctJson /\ q.model # Undef /\ q.model \notin DOMAIN geminiCost
            THEN "pricing unknown"
            ELSE Undef
      [] provider = "similarity" ->
            IF q.docs = "none" THEN "Unexpected end of JSON input"
            ELSE IF q.docs = "empty" THEN "required: docs[] array"
            ELSE IF extractThrows(q.docsList) \/ (q.hasTopics /\ extractThrows(q.topics))
            THEN "Each doc must be a string or an object with {type, value}"
            ELSE Undef
      [] OTHER -> Undef

\* usage > limit: a caller exactly at its limit is admitted.
overLimitStrict(usage, limit) == usage > limit

\* usage >= limit
overLimit(usage, limit) == usage >= limit

\* Every caller with a valid token is an admin.
isAdminAlways(email, adminSet) == TRUE

\* admins.includes(payload.email)
isAdmin(email, adminSet) == email \in adminSet

\* ---------------------------------------------------------------- state
VARIABLES
    salt,       \* the salt map of the configuration: email -> text or Undef
    rotations,  \* how many times the operator has rotated a salt
    budget,     \* the budget policy map of the configuration
    ledger,     \* ledger instance name -> table
    today,      \* the current UTC date
    req,        \* handler -> its state
    minted,     \* the identity tokens minted so far by /token and /admin/token
    revoked,    \* the minted tokens whose email had its salt rotated since
    log,        \* the ledger operations executed so far, oldest first (history)
    openrouterModels,   \* the cached models list of the OpenRouter adapter
    published   \* how many new models lists OpenRouter has published

vars ==
    <<salt, rotations, budget, ledger, today, req, minted, revoked, log, openrouterModels,
      published>>

\* One executed ledger operation: add or setCost, on which instance, on
\* which row, with which argument.
Op(op, id, email, date, value) ==
    [op |-> op, id |-> id, key |-> <<email, date>>, value |-> value]

\* What a handler does to the shared state when it is received.
NoEffect == [kind |-> "none", token |-> Empty]
MintEffect(token) == [kind |-> "mint", token |-> token]
SetCostEffect == [kind |-> "setCost", token |-> Empty]

\* An exception that nothing catches: fetch rejects and the runtime
\* answers 500.
uncaught(h) == [h EXCEPT !.pc = "done", !.status = 500, !.body = "exception"]

\* providers[provider] is truthy: a registered adapter, or a property that
\* the providers object inherits from Object.prototype.
ObjectPrototypeKeys == {"constructor", "toString", "valueOf", "hasOwnProperty", "__proto__"}
hasProvider(provider) == provider \in Providers \cup ObjectPrototypeKeys

\* A proxy that fetches whatever the target is.
proxyRequestAnyScheme(h) ==
    LET parts == splitProxy(h.q) IN
    IF Len(parts) < 2 THEN uncaught(h)
    ELSE [h EXCEPT !.pc = "proxy", !.upstream = @ + 1, !.fetched = <<parts[2]>>]

\* proxyRequest(request) up to its fetch: targetUrl is the second element
\* of the split, undefined when there is none.
proxyRequest(h) ==
    LET parts == splitProxy(h.q) IN
    IF Len(parts) < 2 THEN uncaught(h)
    ELSE IF ~parts[2].http THEN jsonResponse(h, 400, "URL must begin with http")
    ELSE [h EXCEPT !.pc = "proxy", !.upstream = @ + 1, !.fetched = <<parts[2]>>]

\* tokenFromCredential(credential, secret): /token
tokenFromCredential(h) ==
    LET q == h.q IN
    IF q.credential \notin {"verified", "unverified"}
    THEN [h |-> uncaught(h), effect |-> NoEffect]
    ELSE IF q.credential = "unverified"
    THEN [h |-> jsonResponse(h, 401, "Invalid Google credentials"), effect |-> NoEffect]
    ELSE [h |-> [h EXCEPT !.pc = "done", !.status = 200, !.body = "token",
                          !.cors = addCors(NoCors),
                          !.shown = {createToken(q.email, AIPIPE_SECRET, salt[q.email])}],
          effect |-> MintEffect(createToken(q.email, AIPIPE_SECRET, salt[q.email]))]

\* Admin endpoints placed behind the budget admission.
adminEndpointAfterAdmission(h) ==
    LET q == h.q IN
    IF overLimit(ledgerCost(ledger[aiPipeCostId(h.email)], h.email, h.days, today), h.limit)
    THEN [h |-> jsonResponse(h, 429, "Usage"), effect |-> NoEffect]
    ELSE IF ~isAdmin(h.email, admins)
    THEN [h |-> jsonResponse(h, 403, "Admin access required"), effect |-> NoEffect]
    ELSE IF q.action = "usage"
    THEN [h |-> [h EXCEPT !.pc = "done", !.status = 200, !.body = "rows",
                          !.cors = addCors(NoCors)],
          effect |-> NoEffect]
    ELSE IF q.action = "token"
    THEN LET email == CoalesceS(q.email, h.email) IN
         [h |-> [h EXCEPT !.pc = "done", !.status = 200, !.body = "token",
                          !.cors = addCors(NoCors),
                          !.shown = {createToken(email, AIPIPE_SECRET, salt[email])}],
          effect |-> MintEffect(createToken(email, AIPIPE_SECRET, salt[email]))]
    ELSE IF q.action = "cost"
    THEN IF q.method # "POST"
         THEN [h |-> jsonResponse(h, 405, "Use POST /admin/cost"), effect |-> NoEffect]
         ELSE [h |-> [h EXCEPT !.pc = "done", !.status = 200, !.body = "json",
                               !.message = "Cost set", !.writes = @ + 1,
                               !.cors = addCors(NoCors)],
               effect |-> SetCostEffect]
    ELSE [h |-> jsonResponse(h, 404, "Unknown admin action"), effect |-> NoEffect]

\* The admin endpoints of fetch, for a caller whose token is valid.
adminEndpoint(h) ==
    LET q == h.q IN
    IF ~isAdmin(h.email, admins)
    THEN [h |-> jsonResponse(h, 403, "Admin access required"), effect |-> NoEffect]
    ELSE IF q.action = "usage"
    THEN [h |-> [h EXCEPT !.pc = "done", !.status = 200, !.body = "rows",
                          !.cors = addCors(NoCors)],
          effect |-> NoEffect]
    ELSE IF q.action = "token"
    THEN LET email == CoalesceS(q.email, h.email) IN
         [h |-> [h EXCEPT !.pc = "done", !.status = 200, !.body = "token",
                          !.cors = addCors(NoCors),
                          !.shown = {createToken(email, AIPIPE_SECRET, salt[email])}],
          effect |-> MintEffect(createToken(email, AIPIPE_SECRET, salt[email]))]
    ELSE IF q.action = "cost"
    THEN IF q.method # "POST"
         THEN [h |-> jsonResponse(h, 405, "Use POST /admin/cost"), effect |-> NoEffect]
         ELSE [h |-> [h EXCEPT !.pc = "done", !.status = 200, !.body = "json",
                               !.message = "Cost set", !.writes = @ + 1,
                               !.cors = addCors(NoCors)],
               effect |-> SetCostEffect]
    ELSE [h |-> jsonResponse(h, 404, "Unknown admin action"), effect |-> NoEffect]

\* A key the worker holds in env.
ServerKey(name) == [kind |-> "server", email |-> name, salt |-> Undef, key |-> Undef]

\* request.headers, by lower-case name: the Authorization header when the
\* client sent one, the Content-Type of a JSON body, and the cf-ray header
\* Cloudflare adds.
requestHeaders(q) ==
    [k \in (IF q.header.present THEN {"authorization"} ELSE {})
            \cup (IF q.ctJson THEN {"content-type"} ELSE {}) \cup {"cf-ray"} |->
        IF k = "authorization" THEN q.header.cred ELSE OtherText]

\* An updateHeaders that appends the updates instead of setting them: a
\* header the request already has keeps the request's value.
updateHeadersAppend(headers, skip, update) ==
    [k \in (DOMAIN headers \ skip) \cup DOMAIN update |->
        IF k \in DOMAIN headers \ skip THEN headers[k] ELSE update[k]]

\* updateHeaders(headers, skip, update): the headers whose name matches no
\* skip pattern, then every update set over them.
updateHeaders(headers, skip, update) ==
    [k \in (DOMAIN headers \ skip) \cup DOMAIN update |->
        IF k \in DOMAIN update THEN update[k] ELSE headers[k]]

\* The names SKIP_REQUEST_HEADERS matches among the headers of the model.
SkipRequestHeaders == {"content-length", "host", "cf-ray", "connection", "accept-encoding"}

\* The headers of the outbound request of a provider route: those its
\* transform returns, passed through updateHeaders(headers,
\* SKIP_REQUEST_HEADERS) by fetch; the similarity transform builds its own
\* and sends them itself.
outboundHeaders(provider, q) ==
    CASE provider = "openrouter" ->
            updateHeaders(
                updateHeaders(requestHeaders(q), {},
                    [k \in {"authorization", "http-referer", "x-title"} |->
                        IF k = "authorization" THEN ServerKey("OPENROUTER_API_KEY")
                        ELSE OtherText]),
                SkipRequestHeaders, NoHeaders)
      [] provider = "openai" ->
            updateHeaders(
                updateHeaders(requestHeaders(q), {},
                    [k \in {"authorization"} |-> ServerKey("OPENAI_API_KEY")]),
                SkipRequestHeaders, NoHeaders)
      [] provider = "geminiv1beta" ->
            updateHeaders(
                updateHeaders(requestHeaders(q), {"authorization"},
                    [k \in {"x-goog-api-key"} |-> ServerKey("GEMINI_API_KEY")]),
                SkipRequestHeaders, NoHeaders)
      [] OTHER ->
            [k \in {"content-type", "authorization"} |->
                IF k = "authorization" THEN ServerKey("OPENAI_API_KEY") ELSE OtherText]

\* The header in which the transform of a provider puts the provider key:
\* Gemini's drops Authorization and sets x-goog-api-key, the others set
\* Authorization.
keyHeader(provider) ==
    IF provider = "geminiv1beta" THEN "x-goog-api-key" ELSE "authorization"

\* The provider routes of fetch, for a caller whose token is valid: budget
\* admission, then the adapter's transform, then the outbound fetch.  An
\* inherited property has no transform and calling it throws.
\* A pipeline that forwards the request although transform returned an error.
providerRouteIgnoresError(h0) ==
    LET q == h0.q
        table == ledger[aiPipeCostId(h0.email)]
        h == [h0 EXCEPT !.usage = ledgerCost(table, h0.email, h0.days, today)]
    IN  IF overLimit(h.usage, h.limit) THEN jsonResponse(h, 429, "Usage")
        ELSE IF q.route \notin Providers THEN uncaught(h)
        ELSE IF q.route = "similarity"
        THEN [h EXCEPT !.pc = "embedding", !.upstream = @ + 1, !.upstreamKey = "env",
                       !.upstreamHeader = keyHeader(q.route), !.input = similarityInput(q),
                       !.sent = outboundHeaders(q.route, q)]
        ELSE [h EXCEPT !.pc = "upstream", !.upstream = @ + 1, !.upstreamKey = "env",
                       !.upstreamHeader = keyHeader(q.route),
                       !.sent = outboundHeaders(q.route, q)]

providerRoute(h0) ==
    LET q == h0.q
        table == ledger[aiPipeCostId(h0.email)]
        h == [h0 EXCEPT !.usage = ledgerCost(table, h0.email, h0.days, today)]
        error == transformError(q.route, q)
    IN  IF overLimit(h.usage, h.limit) THEN jsonResponse(h, 429, "Usage")
        ELSE IF q.route \notin Providers THEN uncaught(h)
        ELSE IF error # Undef THEN jsonResponse(h, 400, error)
        ELSE IF q.route = "similarity"
        THEN [h EXCEPT !.pc = "embedding", !.upstream = @ + 1, !.upstreamKey = "env",
                       !.upstreamHeader = keyHeader(q.route), !.input = similarityInput(q),
                       !.sent = outboundHeaders(q.route, q)]
        ELSE [h EXCEPT !.pc = "upstream", !.upstream = @ + 1, !.upstreamKey = "env",
                       !.upstreamHeader = keyHeader(q.route),
                       !.sent = outboundHeaders(q.route, q)]

\* fetch(request, env) up to its first outbound fetch or ledger write.
fetch(q) ==
    LET h == [Idle EXCEPT !.q = q]
        token == bearerToken(q.header)
        payload == validateToken(token, AIPIPE_SECRET, salt)
        policy == budgetFor(budget, payload.email)
        authed == [h EXCEPT !.email = payload.email, !.limit = policy.limit,
                            !.days = policy.days]
    IN  IF q.method = "OPTIONS"
        THEN [h |-> [h EXCEPT !.pc = "done", !.status = 200, !.cors = addCors(PreflightHeaders)],
              effect |-> NoEffect]
        ELSE IF q.route = "token" THEN tokenFromCredential(h)
        ELSE IF ~hasProvider(q.route) /\ q.route \notin {"usage", "admin", "proxy"}
        THEN [h |-> jsonResponse(h, 404, "Unknown provider"), effect |-> NoEffect]
        ELSE IF q.route = "proxy" THEN [h |-> proxyRequest(h), effect |-> NoEffect]
        ELSE IF token.kind = "empty"
        THEN [h |-> jsonResponse(h, 401, "Missing Authorization: Bearer token"),
              effect |-> NoEffect]
        ELSE IF payload.error # Undef
        THEN [h |-> jsonResponse(h, 401, payload.error), effect |-> NoEffect]
        ELSE IF q.route = "usage"
        THEN [h |-> [authed EXCEPT
                        !.pc = "done", !.status = 200, !.body = "usage",
                        !.cors = addCors(NoCors),
                        !.usage = ledgerCost(ledger[aiPipeCostId(authed.email)], authed.email,
                                             authed.days, today),
                        !.rows = ledgerUsage(ledger[aiPipeCostId(authed.email)], authed.email,
                                             authed.days, today)],
              effect |-> NoEffect]
        ELSE IF q.route = "admin" THEN adminEndpoint(authed)
        ELSE [h |-> providerRoute(authed), effect |-> NoEffect]

\* A splitter that forwards only the chunks that end a line.
enqueueEndedLines(out, chunk) ==
    IF Len(chunk) > 0 /\ chunk[Len(chunk)] = NL THEN Append(out, chunk) ELSE out

\* controller.enqueue(chunk) of transform: the chunk goes downstream as it is.
enqueue(out, chunk) == Append(out, chunk)

\* sseTransform(provider, addCost).flush(): addCost({ model, usage })
sseFlush(st) ==
    [st EXCEPT !.calls = @ + 1, !.arg = [model |-> st.model, usage |-> st.usage]]

\* --------------------------------------------------------------- actions
\* The row (email, today) of the default ledger, 0 without a row.
rowToday(tables, email) ==
    IF <<email, today>> \in DOMAIN tables["default"] THEN tables["default"][<<email, today>>] ELSE 0

\* A handler receives request q and runs fetch up to its first outbound
\* fetch; /admin/cost and the two mint endpoints take effect here.
Receive(r, q) ==
    /\ req[r].pc = "idle"
    /\ LET got == fetch(q)
           id == aiPipeCostId(got.h.email)
       IN
       /\ got.effect.kind = "setCost" => Len(log) < MaxOps
       /\ req' = [req EXCEPT ![r] = got.h]
       /\ ledger' =
            IF got.effect.kind = "setCost"
            THEN [ledger EXCEPT ![id] = ledgerSetCost(@, q.email, q.date, q.cost)]
            ELSE ledger
       /\ log' =
            IF got.effect.kind = "setCost"
            THEN Append(log, Op("setCost", id, q.email, q.date, q.cost))
            ELSE log
       /\ minted' = IF got.effect.kind = "mint" THEN minted \cup {got.effect.token} ELSE minted
    /\ UNCHANGED <<salt, rotations, budget, today, revoked, openrouterModels, published>>

\* What the client gets once the metering of a response is over.  A
\* streamed response was returned when the stream began (its status is
\* set); on the other paths fetch returns only now: the JSON of the
\* similarity adapter, or the upstream's status and body.
respond(h) ==
    IF h.status # 0 THEN h
    ELSE IF h.q.route = "similarity"
    THEN [h EXCEPT !.status = 200, !.body = "similarity", !.cors = addCors(NoCors)]
    ELSE [h EXCEPT !.status = h.resp.status, !.body = "upstream", !.cors = addCors(UpstreamCors)]

\* What the client gets when the metering throws: nothing catches it.  In
\* flush the stream errors; inside fetch the handler fails and the runtime
\* answers 500, a response the worker's code has no hand in.
meteringThrew(h) ==
    IF h.status # 0
    THEN [h EXCEPT !.pc = "done", !.body = "stream error", !.failed = TRUE, !.delta = 0]
    ELSE [h EXCEPT !.pc = "done", !.status = 500, !.body = "exception", !.failed = TRUE,
                   !.delta = 0]

\* The lookup of the models list that the cost calculation of a provider
\* makes: the OpenRouter adapter's getOpenrouterModel, none for the others.
lookup(provider, model) ==
    IF provider = "openrouter"
    THEN getOpenrouterModel(model, openrouterModels, ModelsList(published))
    ELSE [cache |-> openrouterModels, fetches |-> 0]

\* addCost(data), data being a JSON body or the latched pair of the
\* splitter: parse it, compute the cost; the handler goes on to add the
\* cost when it is positive, and fails when the cost calculation throws.
\* No transform returns a model or a usage for these routes, so tModel and
\* tUsage are undefined.
addCost(h0, data) ==
    LET provider == h0.q.route
        parsed == parse(provider, data)
        looked == lookup(provider, parsed.model)
        h == [h0 EXCEPT !.listFetches = @ + looked.fetches]
        c == cost(provider, parsed.model, parsed.usage, looked.cache)
    IN  IF c.threw THEN meteringThrew(h)
        ELSE IF c.cost > 0 THEN [h EXCEPT !.pc = "add", !.delta = c.cost]
        ELSE [respond(h) EXCEPT !.pc = "done"]

\* A pipeline that meters a body whatever its Content-Type.
UpstreamRespondMetersAny(r, resp) ==
    /\ req[r].pc = "upstream"
    /\ LET h == [req[r] EXCEPT !.resp = resp]
       IN  req' = [req EXCEPT ![r] =
                CASE resp.ct = "sse" ->
                        [h EXCEPT !.pc = "stream", !.status = resp.status, !.body = "stream",
                                  !.cors = addCors(UpstreamCors),
                                  !.sse = sseStart]
                  [] OTHER -> addCost(h, resp.ev)]
    /\ openrouterModels' =
            IF resp.ct # "sse"
            THEN lookup(req[r].q.route, parse(req[r].q.route, resp.ev).model).cache
            ELSE openrouterModels
    /\ UNCHANGED <<salt, rotations, budget, ledger, today, minted, revoked, log, published>>

\* The upstream answers the fetch of worker.js; a JSON body is metered before
\* the response is returned, an SSE body while it streams, any other not at
\* all.
UpstreamRespond(r, resp) ==
    /\ req[r].pc = "upstream"
    /\ LET h == [req[r] EXCEPT !.resp = resp]
       IN  req' = [req EXCEPT ![r] =
                CASE resp.ct = "json" -> addCost(h, resp.ev)
                  [] resp.ct = "sse" ->
                        [h EXCEPT !.pc = "stream", !.status = resp.status, !.body = "stream",
                                  !.cors = addCors(UpstreamCors),
                                  !.sse = sseStart]
                  [] OTHER -> [respond(h) EXCEPT !.pc = "done"]]
    /\ openrouterModels' =
            IF resp.ct = "json"
            THEN lookup(req[r].q.route, parse(req[r].q.route, resp.ev).model).cache
            ELSE openrouterModels
    /\ UNCHANGED <<salt, rotations, budget, ledger, today, minted, revoked, log, published>>

\* A hard quota: an add that would take the window sum above the limit is
\* dropped.
LedgerAddWithinLimit(r) ==
    /\ req[r].pc = "add"
    /\ Len(log) < MaxOps
    /\ LET h == req[r]
           id == aiPipeCostId(h.email)
           fits == ledgerCost(ledger[id], h.email, h.days, today) + h.delta <= h.limit
       IN  /\ fits => rowToday(ledger, h.email) + h.delta <= MaxCost
           /\ ledger' = IF fits THEN [ledger EXCEPT ![id] = ledgerAdd(@, h.email, today, h.delta)]
                        ELSE ledger
           /\ log' = IF fits THEN Append(log, Op("add", id, h.email, today, h.delta)) ELSE log
           /\ req' = [req EXCEPT ![r] =
                        [respond(h) EXCEPT !.pc = "done", !.delta = 0,
                                  !.writes = IF fits THEN @ + 1 ELSE @,
                                  !.charged = @ + rowToday(ledger', h.email)
                                                - rowToday(ledger, h.email)]]
    /\ UNCHANGED <<salt, rotations, budget, today, minted, revoked, openrouterModels, published>>

\* An add that charges the email the request names, when it names one.
LedgerAddToNamedEmail(r) ==
    /\ req[r].pc = "add"
    /\ rowToday(ledger, req[r].email) + req[r].delta <= MaxCost
    /\ Len(log) < MaxOps
    /\ LET h == req[r]
           id == aiPipeCostId(h.email)
       IN  /\ ledger' = [ledger EXCEPT ![id] = ledgerAdd(@, CoalesceS(h.q.email, h.email), today, h.delta)]
           /\ log' = Append(log, Op("add", id, h.email, today, h.delta))
           /\ req' = [req EXCEPT ![r] =
                        [respond(h) EXCEPT !.pc = "done", !.delta = 0, !.writes = @ + 1,
                                  !.charged = @ + rowToday(ledger', h.email)
                                                - rowToday(ledger, h.email)]]
    /\ UNCHANGED <<salt, rotations, budget, today, minted, revoked, openrouterModels, published>>

\* aiPipeCost.add(email, cost) of a handler that waits for it.
LedgerAdd(r) ==
    /\ req[r].pc = "add"
    /\ rowToday(ledger, req[r].email) + req[r].delta <= MaxCost
    /\ Len(log) < MaxOps
    /\ LET h == req[r]
           id == aiPipeCostId(h.email)
       IN  /\ ledger' = [ledger EXCEPT ![id] = ledgerAdd(@, h.email, today, h.delta)]
           /\ log' = Append(log, Op("add", id, h.email, today, h.delta))
           /\ req' = [req EXCEPT ![r] =
                        [respond(h) EXCEPT !.pc = "done", !.delta = 0, !.writes = @ + 1,
                                  !.charged = @ + rowToday(ledger', h.email)
                                                - rowToday(ledger, h.email)]]
    /\ UNCHANGED <<salt, rotations, budget, today, minted, revoked, openrouterModels, published>>

\* aiPipeCost.add(email, cost) rejects (the durable object is unreachable
\* or its storage fails): the await throws.
LedgerAddFails(r) ==
    /\ req[r].pc = "add"
    /\ req' = [req EXCEPT ![r] = meteringThrew(@)]
    /\ UNCHANGED <<salt, rotations, budget, ledger, today, minted, revoked, log, openrouterModels, published>>

\* One chunk of the upstream SSE body goes through the splitter.
SseChunk(r, chunk) ==
    /\ req[r].pc = "stream"
    /\ Len(req[r].out) < MaxChunks
    /\ req' = [req EXCEPT ![r].sse = sseTransformChunk(req[r].q.route, @, chunk),
                          ![r].out = enqueue(@, chunk),
                          ![r].received = Append(@, chunk)]
    /\ UNCHANGED <<salt, rotations, budget, ledger, today, minted, revoked, log, openrouterModels, published>>

\* The upstream SSE body ends: flush calls the metering callback with the
\* latched pair.
SseFlush(r) ==
    /\ req[r].pc = "stream"
    /\ LET h == [req[r] EXCEPT !.sse = sseFlush(@)] IN
       /\ req' = [req EXCEPT ![r] = addCost(h, Pair(h.sse.arg.model, h.sse.arg.usage))]
       /\ openrouterModels' =
            lookup(h.q.route, parse(h.q.route, Pair(h.sse.arg.model, h.sse.arg.usage)).model).cache
    /\ UNCHANGED <<salt, rotations, budget, ledger, today, minted, revoked, log, published>>

\* An abort that is handled like the end of the stream.
SseAbortFlushes(r) ==
    /\ req[r].pc = "stream"
    /\ LET h == [req[r] EXCEPT !.sse = sseFlush(@), !.body = "aborted"] IN
       /\ req' = [req EXCEPT ![r] = addCost(h, Pair(h.sse.arg.model, h.sse.arg.usage))]
       /\ openrouterModels' =
            lookup(h.q.route, parse(h.q.route, Pair(h.sse.arg.model, h.sse.arg.usage)).model).cache
    /\ UNCHANGED <<salt, rotations, budget, ledger, today, minted, revoked, log, published>>

\* The upstream body errors, or the client cancels or disconnects, before
\* the body has ended: the TransformStream is torn down and flush, its only
\* callback besides start and transform, does not run.
SseAbort(r) ==
    /\ req[r].pc = "stream"
    /\ req' = [req EXCEPT ![r].pc = "done", ![r].body = "aborted"]
    /\ UNCHANGED <<salt, rotations, budget, ledger, today, minted, revoked, log,
                   openrouterModels, published>>

\* A handler that has answered is gone; its slot serves the next request.
Retire(r) ==
    /\ req[r].pc = "done"
    /\ req' = [req EXCEPT ![r] = Idle]
    /\ UNCHANGED <<salt, rotations, budget, ledger, today, minted, revoked, log, openrouterModels, published>>

\* The operator gives an email a new salt text and redeploys.
RotateSalt(e) ==
    /\ rotations < MaxRotations
    /\ \A r \in Reqs : req[r].pc \in {"idle", "done"}
    /\ rotations' = rotations + 1
    /\ salt' = [salt EXCEPT ![e] = rotatedSalt(rotations + 1)]
    /\ revoked' = revoked \cup {t \in minted : t.email = e}
    /\ UNCHANGED <<budget, ledger, today, req, minted, log, openrouterModels, published>>

\* OpenRouter publishes a new models list.
Publish ==
    /\ published < MaxLists
    /\ published' = published + 1
    /\ UNCHANGED <<salt, rotations, budget, ledger, today, req, minted, revoked, log,
                   openrouterModels>>

\* UTC midnight passes.
Tick ==
    /\ today < MaxDay
    /\ today' = today + 1
    /\ UNCHANGED <<salt, rotations, budget, ledger, req, minted, revoked, log, openrouterModels, published>>

\* The embeddings endpoint answers the fetch of the similarity adapter;
\* resp.ct is "json" for a JSON body whose data is an array, "nodata" for a
\* JSON body whose data is not, and anything else for a body response.json()
\* throws on, which the adapter's catch turns into a 400.
EmbeddingRespond(r, resp) ==
    /\ req[r].pc = "embedding"
    /\ LET h == [req[r] EXCEPT !.resp = resp]
           model == CoalesceS(h.q.model, "text-embedding-3-small")
           u == unwrap(resp.ev).usage
           usage == [NoUsage EXCEPT
                        !.present = TRUE,
                        !.prompt_tokens =
                            IF u.present
                            THEN Coalesce(u.prompt_tokens, Coalesce(u.input_tokens, 0))
                            ELSE 0]
           c == tokenCost(openaiCost, model, usage)
       IN  req' = [req EXCEPT ![r] =
                IF resp.status # 200 THEN jsonResponse(h, resp.status, "upstream error")
                ELSE IF resp.ct = "nodata"
                THEN jsonResponse(h, 500, "OpenAI result.data not an array")
                ELSE IF resp.ct # "json" THEN jsonResponse(h, 400, "Unexpected token")
                ELSE IF c > 0 THEN [h EXCEPT !.pc = "add", !.delta = c]
                ELSE [respond(h) EXCEPT !.pc = "done"]]
    /\ UNCHANGED <<salt, rotations, budget, ledger, today, minted, revoked, log, openrouterModels, published>>

\* The fetch of proxyRequest settles: with a response of some status, with
\* the abort of the 30 s timer, or with another error.
ProxyRespond(r, outcome, status) ==
    /\ req[r].pc = "proxy"
    /\ req' = [req EXCEPT ![r] =
            CASE outcome = "response" ->
                    [@ EXCEPT !.pc = "done", !.resp = Response("other", status, EmptyEvent),
                              !.status = status, !.body = "upstream",
                              !.xProxyUrl = req[r].fetched,
                              !.cors = addCors(UpstreamCors)]
              [] outcome = "timeout" -> jsonResponse(@, 504, "Request timed out after 30 seconds")
              [] OTHER -> jsonResponse(@, 500, "Proxy error")]
    /\ UNCHANGED <<salt, rotations, budget, ledger, today, minted, revoked, log, openrouterModels, published>>

\* ------------------------------------------------------------ the gateway
\* The credentials and requests of the gateway specification.
SignedTokens ==
    {Jwt(e, Undef, AIPIPE_SECRET) : e \in Emails}
        \cup {Jwt("user@example.com", s, AIPIPE_SECRET) : s \in SaltTexts}
        \cup {Jwt("guest@other.org", "random-text", AIPIPE_SECRET)}

Creds ==
    SignedTokens
        \cup {Jwt("admin@example.com", Undef, OtherKey), OtherText}
        \cup {NativeKey(p) : p \in NativePrefixes}

\* Authorization headers: none; "Bearer " followed by a credential or by
\* nothing; a value without the prefix that is a token or another text.
Headers ==
    {NoHeader, Header(TRUE, Empty)}
        \cup {Header(TRUE, c) : c \in Creds}
        \cup {Header(FALSE, c) :
                c \in {Jwt("user@example.com", "random-text", AIPIPE_SECRET), OtherText}}

\* A model the pricing of the provider knows (for similarity: none, which
\* selects the default).
PricedModel(provider) ==
    CASE provider = "openai" -> "gpt-4.1-nano"
      [] provider = "geminiv1beta" -> "gemini-2.5-flash"
      [] provider = "openrouter" -> "openrouter/test-model"
      [] OTHER -> Undef

ProviderRequests ==
    UNION {{Request("POST", p, h, Undef, TRUE, m, "ok", Undef, 0, 0, Undef, Undef) :
                h \in Headers, m \in {PricedModel(p), "unknown-model"}} : p \in Providers}
        \cup {Request("POST", "openai",
                        Header(TRUE, Jwt("user@example.com", "random-text", AIPIPE_SECRET)), Undef,
                        FALSE, "gpt-4.1-nano", "ok", Undef, 0, 0, Undef, Undef)}

UsageRequests ==
    {Request("GET", "usage", h, Undef, FALSE, Undef, "none", Undef, 0, 0, Undef, Undef) :
        h \in Headers}

AdminRequests ==
    {Request(m, "admin", h, a, TRUE, Undef, "none", "user@example.com", 1, 2, Undef, Undef) :
        m \in {"GET", "POST"}, h \in Headers, a \in {"usage", "token", "cost", "other"}}

\* Preflights: to a provider route and to a path that is no route, with and
\* without an Authorization header, with and without
\* Access-Control-Request-Headers.
PreflightRequests ==
    {[Request("OPTIONS", p, h, Undef, FALSE, Undef, "none", Undef, 0, 0, Undef, Undef)
        EXCEPT !.acrh = a] :
        p \in {"openai", "does-not-exist"}, h \in {NoHeader, Header(TRUE, OtherText)},
        a \in {Undef, "X-Custom-Header"}}

\* Authorization headers of the routes that ask for none: absent, a text
\* that is no token, the token of an identity with budget, of one whose
\* limit is 0, and one that the salt of its email has revoked.
AnyAuthorization ==
    {NoHeader, Header(TRUE, OtherText),
     Header(TRUE, Jwt("user@example.com", "random-text", AIPIPE_SECRET)),
     Header(TRUE, Jwt("blocked@example.com", Undef, AIPIPE_SECRET)),
     Header(TRUE, Jwt("user@example.com", Undef, AIPIPE_SECRET))}

\* /proxy targets: https://example.com/a?x=1, https://example.com/proxy/b?x=1,
\* ftp://example.com/a, the empty target of /proxy/, and the path /proxy
\* with nothing behind it.
ProxyTargets ==
    {<<Text(TRUE, "https://example.com/a?x=1")>>,
     <<Text(TRUE, "https://example.com"), Text(FALSE, "b?x=1")>>,
     <<Text(FALSE, "ftp://example.com/a")>>,
     <<Text(FALSE, "")>>,
     <<>>}

ProxyRequests ==
    {Request("GET", "proxy", h, Undef, FALSE, Undef, "none", Undef, 0, 0, Undef, t) :
        h \in AnyAuthorization, t \in ProxyTargets}

\* Paths whose first segment is no route: one that the providers object
\* does not have at all, and one that it inherits.
UnknownRouteRequests ==
    {Request("GET", p, h, Undef, FALSE, Undef, "none", Undef, 0, 0, Undef, Undef) :
        p \in {"does-not-exist", "constructor"}, h \in AnyAuthorization}

OtherRequests ==
    ProxyRequests \cup UnknownRouteRequests
        \cup {Request("GET", "token", NoHeader, Undef, FALSE, Undef, "none", "user@example.com",
                      0, 0, c, Undef) : c \in {"verified", "unverified", "forged"}}

Requests ==
    ProviderRequests \cup UsageRequests \cup AdminRequests \cup PreflightRequests
        \cup OtherRequests

\* Upstream bodies: an OpenAI-shaped completion, the same inside a
\* {response} envelope with the counters of the Responses API, a
\* Gemini-shaped one, an OpenRouter-shaped one, and a body with neither
\* model nor usage (an upstream error).
OpenAIBody == Event(FALSE, "gpt-4.1-nano", Undef, Usage(1, NoNum, NoNum, 1, NoNum, NoNum, NoNum), NoUsage)
ResponsesBody == Event(TRUE, "gpt-4.1-nano", Undef, Usage(NoNum, NoNum, 1, NoNum, NoNum, 0, NoNum), NoUsage)
GeminiBody ==
    Event(FALSE, Undef, "gemini-2.5-flash", NoUsage, Usage(NoNum, 1, NoNum, NoNum, 1, NoNum, NoNum))
OpenRouterBody ==
    Event(FALSE, "openrouter/test-model", Undef,
          [Usage(1, NoNum, NoNum, 0, NoNum, NoNum, 1) EXCEPT !.image_tokens = 1], NoUsage)

Bodies(provider) ==
    {EmptyEvent} \cup
    CASE provider = "openai" -> {OpenAIBody, ResponsesBody}
      [] provider = "geminiv1beta" -> {GeminiBody}
      [] provider = "openrouter" -> {OpenRouterBody}
      [] OTHER -> {OpenAIBody}

\* A body that names the priced model of the provider and reports no usage.
ModelOnly(provider) == Event(FALSE, PricedModel(provider), Undef, NoUsage, NoUsage)

Responses(provider) ==
    {Response("json", st, ev) : st \in {200}, ev \in Bodies(provider) \cup {ModelOnly(provider)}}
        \cup {Response("json", 400, EmptyEvent), Response("sse", 200, EmptyEvent)}
        \cup {Response("other", 200, ev) : ev \in Bodies(provider)}
        \cup (IF provider = "similarity" THEN {Response("nodata", 200, EmptyEvent)} ELSE {})

Frame(ev) == <<DataPrefix, Json(ev), NL, NL>>

Chunks(provider) ==
    {Frame(ev) : ev \in Bodies(provider)} \cup {<<DataPrefix, OtherPiece, NL, NL>>}

\* A table with the given rows.
Table(rows) == [k \in {x[1] : x \in rows} |-> (CHOOSE x \in rows : x[1] = k)[2]]

\* The ledgers a gateway run starts from: empty; user@example.com at its
\* limit today; at its limit over two days; others at or below theirs.
SeedTables ==
    {EmptyTable,
     Table({<< <<"user@example.com", 1>>, 3 >>}),
     Table({<< <<"user@example.com", 1>>, 1 >>, << <<"user@example.com", 0>>, 2 >>}),
     Table({<< <<"guest@other.org", 1>>, 1 >>, << <<"admin@example.com", 1>>, 1 >>,
            << <<"user@example.com", 1>>, 2 >>})}

Init ==
    /\ salt = saltExample
    /\ rotations = 0
    /\ budget \in BudgetConfigs
    /\ ledger \in {[n \in LedgerNames |-> IF n = "default" THEN t ELSE EmptyTable] : t \in SeedTables}
    /\ today = 1
    /\ req = [r \in Reqs |-> Idle]
    /\ minted = {}
    /\ revoked = {}
    /\ log = <<>>
    /\ openrouterModels = NoModels
    /\ published = 0

\* One handler, one request.
Next ==
    \/ \E q \in Requests : Receive(1, q)
    \/ \E resp \in Responses(req[1].q.route) : UpstreamRespond(1, resp)
    \/ \E resp \in Responses("similarity") : EmbeddingRespond(1, resp)
    \/ \E o \in {"response", "timeout", "error"}, st \in {200, 404} : ProxyRespond(1, o, st)
    \/ LedgerAdd(1)
    \/ LedgerAddFails(1)
    \/ \E c \in Chunks(req[1].q.route) : SseChunk(1, c)
    \/ SseFlush(1)
    \/ RotateSalt("user@example.com")

Spec == Init /\ [][Next]_vars

\* ================================================================ claims
\* The handler carries a credential the gateway accepted as an identity.
HasIdentity(h) == h.email # Undef

\* C1: a request to a provider route with a valid identity token whose
\* ledger sum over the policy window is at or above the policy limit at
\* admission is answered 429 and issues no upstream request; a limit of 0
\* (explicit or the implicit default) blocks even a sum of 0.
C1_OverBudgetIs429 ==
    \A r \in Reqs :
        LET h == req[r] IN
        (/\ h.q.route \in Providers
         /\ h.q.method # "OPTIONS"
         /\ HasIdentity(h)
         /\ h.usage # NoNum
         /\ h.usage >= budgetFor(budget, h.email).limit)
        => (h.pc = "done" /\ h.status = 429 /\ h.upstream = 0)

\* C1 witness: no policy matches guest@other.org, whose sum is 0, and its
\* request is answered 429 without an upstream request.
C1_Witness ==
    \E r \in Reqs :
        /\ req[r].pc = "done" /\ req[r].q.route \in Providers
        /\ req[r].email = "guest@other.org" /\ budget = budgetNoDefault
        /\ req[r].usage = 0 /\ req[r].status = 429 /\ req[r].upstream = 0

\* The credential a handler's request presents.
credOf(h) == h.q.header.cred

\* A request that reaches token verification: a route behind the
\* authentication, with a non-empty credential.
ReachesVerify(q) ==
    /\ q.method # "OPTIONS"
    /\ q.route \in Providers \cup {"usage", "admin"}
    /\ bearerToken(q.header).kind # "empty"

\* C2: verification accepts a bearer token exactly when its signature
\* validates under the shared secret and the salt map has no entry for its
\* email or the token's salt equals that entry.
C2_AcceptIffSignedAndSalted ==
    [][\A r \in Reqs :
        (req[r].pc = "idle" /\ req'[r].pc # "idle" /\ ReachesVerify(req'[r].q))
        => LET t == credOf(req'[r]) IN
           (req'[r].status # 401)
           <=> (/\ t.kind = "jwt"
                /\ t.key = AIPIPE_SECRET
                /\ (salt[t.email] = Undef \/ t.salt = salt[t.email]))]_vars

\* C2 witness: a correctly signed token without a salt, for an email that
\* has a salt entry, was rejected as no longer valid.
C2_Witness ==
    \E r \in Reqs :
        /\ req[r].pc = "done" /\ ReachesVerify(req[r].q)
        /\ credOf(req[r]) = Jwt("user@example.com", Undef, AIPIPE_SECRET)
        /\ salt["user@example.com"] # Undef
        /\ req[r].status = 401 /\ req[r].message = "no longer valid"

\* C3: no step of a handler whose bearer credential has a native provider
\* prefix creates or changes a ledger entry.
C3_NativeNeverWrites ==
    [][\A r \in Reqs :
        (req'[r] # req[r] /\ credOf(req'[r]).kind = "native") => ledger' = ledger]_vars

\* C3 witness: a request with an sk- key to the OpenAI route was answered.
C3_Witness ==
    \E r \in Reqs :
        /\ req[r].pc = "done" /\ req[r].q.route = "openai"
        /\ credOf(req[r]) = NativeKey("sk-") /\ req[r].status # 0 /\ req[r].writes = 0

\* C10: an /admin request with a valid identity token of an email that is
\* not an admin is answered 403, returns no ledger rows, mints no token and
\* leaves the ledger unchanged, whatever the action and the method.
C10_NonAdminIs403 ==
    [][\A r \in Reqs :
        (/\ req[r].pc = "idle" /\ req'[r].pc # "idle"
         /\ req'[r].q.route = "admin" /\ req'[r].q.method # "OPTIONS"
         /\ HasIdentity(req'[r]) /\ req'[r].email # "admin@example.com")
        => (/\ req'[r].status = 403
            /\ req'[r].body \notin {"rows", "token"}
            /\ minted' = minted
            /\ ledger' = ledger)]_vars

\* C10 witness: POST /admin/cost by user@example.com was answered 403.
C10_Witness ==
    \E r \in Reqs :
        /\ req[r].pc = "done" /\ req[r].q.route = "admin" /\ req[r].q.action = "cost"
        /\ req[r].q.method = "POST" /\ req[r].email = "user@example.com"
        /\ req[r].status = 403

\* The cost the OpenAI-shaped body of a response stands for:
\* prompt_tokens * input rate + completion_tokens * output rate of its model
\* (per million tokens, in dollars: per token, in cost units).
OpenAIShapeCost(ev) ==
    LET e == unwrap(ev)
        rates == IF e.model \in DOMAIN openaiCost THEN openaiCost[e.model] ELSE <<0, 0>>
        p == IF ~e.usage.present THEN 0
             ELSE IF e.usage.prompt_tokens # NoNum THEN e.usage.prompt_tokens
             ELSE IF e.usage.input_tokens # NoNum THEN e.usage.input_tokens ELSE 0
        c == IF ~e.usage.present THEN 0
             ELSE IF e.usage.completion_tokens # NoNum THEN e.usage.completion_tokens
             ELSE IF e.usage.output_tokens # NoNum THEN e.usage.output_tokens ELSE 0
    IN  p * rates[1] + c * rates[2]

\* A handler that has answered an identity-token request to a provider
\* route whose upstream response was JSON.
AnsweredJson(h) ==
    /\ h.pc = "done" /\ HasIdentity(h)
    /\ h.q.route \in Providers \ {"similarity"}
    /\ h.resp.ct = "json"

\* C4: for an identity-token request to a provider route whose upstream
\* response is JSON, the client gets the upstream status and body unchanged
\* and the row (email, today) of the ledger has grown by exactly the cost of
\* the body (for the OpenAI shape: prompt_tokens * input rate +
\* completion_tokens * output rate).
C4_JsonBodyMeteredAndForwarded ==
    \A r \in Reqs :
        LET h == req[r] IN
        AnsweredJson(h)
        => (/\ h.body = "upstream"
            /\ h.status = h.resp.status
            /\ h.q.route = "openai" => h.charged = OpenAIShapeCost(h.resp.ev))

\* C4 on the routes other than the Gemini one, where it holds as long as
\* the ledger takes the add.
C4_ExceptGemini ==
    \A r \in Reqs :
        LET h == req[r] IN
        (AnsweredJson(h) /\ h.q.route # "geminiv1beta" /\ ~h.failed)
        => (/\ h.body = "upstream"
            /\ h.status = h.resp.status
            /\ h.q.route = "openai" => h.charged = OpenAIShapeCost(h.resp.ev))

\* An OpenAI chat completion of 1 prompt and 1 completion token of
\* gpt-4.1-nano was forwarded and charged 1 * 1 + 1 * 2.
C4_ExceptGeminiWitness ==
    \E r \in Reqs :
        /\ AnsweredJson(req[r]) /\ req[r].q.route = "openai"
        /\ req[r].resp.ev = OpenAIBody /\ req[r].charged = 3

\* A handler whose response to the client is the event stream of the
\* upstream (the similarity route answers with JSON of its own).
Streams(h) ==
    /\ h.q.route \in Providers \ {"similarity"}
    /\ h.resp.ct = "sse" /\ h.pc \in {"stream", "add", "done"}

\* Some data frame of the chunks forwarded so far carries a model / a usage
\* for the adapter of the route.
SuppliesModel(h) ==
    \E i \in 1..Len(h.out) : \E j \in 1..Len(h.out[i]) :
        h.out[i][j].t \in {"json", "head"} /\ parse(h.q.route, h.out[i][j].ev).model # Undef

SuppliesUsage(h) ==
    \E i \in 1..Len(h.out) : \E j \in 1..Len(h.out[i]) :
        h.out[i][j].t \in {"json", "head"} /\ parse(h.q.route, h.out[i][j].ev).usage.present

\* C5: for an SSE response the metering callback is not invoked while
\* chunks are still being forwarded; once the stream has ended it has been
\* invoked exactly once, with the latched pair, a slot being undefined when
\* no frame supplied a value for it.
C5_CallbackOnceAtFlush ==
    \A r \in Reqs :
        LET h == req[r] IN
        Streams(h)
        => /\ h.pc = "stream" => h.sse.calls = 0
           /\ h.pc # "stream"
                => /\ h.sse.calls = 1
                   /\ h.sse.arg = [model |-> h.sse.model, usage |-> h.sse.usage]
                   /\ ~SuppliesModel(h) => h.sse.arg.model = Undef
                   /\ ~SuppliesUsage(h) => ~h.sse.arg.usage.present

\* C5 witness: a stream whose only chunk holds no parsable data frame has
\* ended, and the callback was invoked once with both slots undefined.
C5_Witness ==
    \E r \in Reqs :
        /\ Streams(req[r]) /\ req[r].pc = "done"
        /\ req[r].out = << <<DataPrefix, OtherPiece, NL, NL>> >>
        /\ req[r].sse.calls = 1
        /\ req[r].sse.arg = [model |-> Undef, usage |-> NoUsage]

\* ------------------------------------------------ the splitter on its own
\* The streams of the splitter specification.  Frames that carry only a
\* model, only a usage, or both, in the shape the provider's API uses.
ModelFrame(provider, m) ==
    IF provider = "geminiv1beta"
    THEN Event(FALSE, Undef, m, NoUsage, NoUsage)
    ELSE Event(FALSE, m, Undef, NoUsage, NoUsage)

UsageFrame(provider, m, n) ==
    IF provider = "geminiv1beta"
    THEN Event(FALSE, Undef, m, NoUsage, Usage(NoNum, n, NoNum, NoNum, 0, NoNum, NoNum))
    ELSE Event(FALSE, m, Undef, Usage(n, NoNum, NoNum, 0, NoNum, NoNum, NoNum), NoUsage)

Malformed == <<DataPrefix, OtherPiece, NL, NL>>

\* Chunks: whole frames; a malformed frame; a model frame and a malformed
\* frame in one chunk; a frame cut in two by the chunk boundary; a data
\* line that no newline ends.
SplitterChunks(provider) ==
    {Frame(ModelFrame(provider, PricedModel(provider))),
     Frame(UsageFrame(provider, "unknown-model", 1)),
     Frame(UsageFrame(provider, Undef, 2)),
     Malformed,
     Frame(ModelFrame(provider, PricedModel(provider))) \o Malformed,
     <<DataPrefix, JsonHead(UsageFrame(provider, Undef, 2))>>,
     <<JsonTail(UsageFrame(provider, Undef, 2)), NL, NL>>,
     <<DataPrefix, Json(ModelFrame(provider, "unknown-model"))>>}

SplitterRequests ==
    {Request("POST", p, Header(TRUE, Jwt("user@example.com", "random-text", AIPIPE_SECRET)),
             Undef, TRUE, PricedModel(p), "ok", Undef, 0, 0, Undef, Undef) :
        p \in Providers \ {"similarity"}}

NextSSE ==
    \/ \E q \in SplitterRequests : Receive(1, q)
    \/ UpstreamRespond(1, Response("sse", 200, EmptyEvent))
    \/ \E c \in SplitterChunks(req[1].q.route) : SseChunk(1, c)
    \/ SseFlush(1)
    \/ LedgerAdd(1)

SpecSSE == Init /\ [][NextSSE]_vars

\* The text of a stream: its chunks one after the other.
RECURSIVE StreamText(_)
StreamText(chunks) ==
    IF chunks = <<>> THEN <<>> ELSE Head(chunks) \o StreamText(Tail(chunks))

\* The lines of the stream that a newline ends, in stream order.
EndedLines(h) ==
    LET lines == split(StreamText(h.out)) IN SubSeq(lines, 1, Len(lines) - 1)

\* What the adapter reads in line i, an empty pair for a line that is not
\* a well-formed data frame.
FrameAt(h, i) ==
    LET line == EndedLines(h)[i] IN
    IF startsWithData(line) /\ jsonParse(line).ok
    THEN parse(h.q.route, jsonParse(line).ev)
    ELSE [model |-> Undef, usage |-> NoUsage]

\* The first non-null model and the first non-null usage of the stream.
FirstModel(h) ==
    LET at == {i \in 1..Len(EndedLines(h)) : FrameAt(h, i).model # Undef} IN
    IF at = {} THEN Undef
    ELSE FrameAt(h, CHOOSE i \in at : \A j \in at : i <= j).model

FirstUsage(h) ==
    LET at == {i \in 1..Len(EndedLines(h)) : FrameAt(h, i).usage.present} IN
    IF at = {} THEN NoUsage
    ELSE FrameAt(h, CHOOSE i \in at : \A j \in at : i <= j).usage

\* C6: at every point of a stream the model slot holds the first non-null
\* model and the usage slot the first non-null usage that the adapter read
\* in the well-formed data frames forwarded so far, each slot on its own:
\* later frames do not change a latched slot, and a malformed frame neither
\* clears a slot nor keeps a later frame from filling an empty one.
C6_LatchFirstIndependently ==
    \A r \in Reqs :
        LET h == req[r] IN
        Streams(h) => (h.sse.model = FirstModel(h) /\ h.sse.usage = FirstUsage(h))

\* C6 witness: a model frame, then a malformed frame, then a frame with
\* another model and a usage: the model of the first and the usage of the
\* last are latched.
C6_Witness ==
    \E r \in Reqs :
        LET h == req[r] IN
        /\ Streams(h) /\ h.q.route = "openai"
        /\ h.out = <<Frame(ModelFrame("openai", "gpt-4.1-nano")) \o Malformed,
                     Frame(UsageFrame("openai", "unknown-model", 1))>>
        /\ h.sse.model = "gpt-4.1-nano"
        /\ h.sse.usage = UsageFrame("openai", "unknown-model", 1).usage

\* ------------------------------------------------- the ledger on its own
\* One handler after the other, over several days: requests of
\* user@example.com to the OpenAI route and POST /admin/cost of the admin
\* for rows of user@example.com, on a ledger that starts empty.  The costs
\* posted are 0 and 2 for every date, and a negative one for one date.
UserHeader == Header(TRUE, Jwt("user@example.com", "random-text", AIPIPE_SECRET))
AdminHeader == Header(TRUE, Jwt("admin@example.com", Undef, AIPIPE_SECRET))

LedgerRequests ==
    {Request("POST", "openai", UserHeader, Undef, TRUE, "gpt-4.1-nano", "ok", Undef, 0, 0,
             Undef, Undef),
     Request("GET", "usage", UserHeader, Undef, FALSE, Undef, "none", Undef, 0, 0, Undef, Undef)}
        \cup {Request("POST", "admin", AdminHeader, "cost", TRUE, Undef, "none",
                      "user@example.com", d, c, Undef, Undef) : d \in Dates, c \in {0, 2}}
        \cup {Request("POST", "admin", AdminHeader, "cost", TRUE, Undef, "none",
                      "user@example.com", 1, -1, Undef, Undef)}

InitLedger == Init /\ ledger = [n \in LedgerNames |-> EmptyTable]

NextLedger ==
    \/ \E q \in LedgerRequests : Receive(1, q)
    \/ \E ev \in {OpenAIBody, ResponsesBody} : UpstreamRespond(1, Response("json", 200, ev))
    \/ LedgerAdd(1)
    \/ Retire(1)
    \/ Tick

SpecLedger == InitLedger /\ [][NextLedger]_vars

\* The operations of the log on row k of instance id.
OpsOn(id, k) == {i \in 1..Len(log) : log[i].id = id /\ log[i].key = k}

RECURSIVE SumValues(_)
SumValues(at) ==
    IF at = {} THEN 0
    ELSE LET i == CHOOSE x \in at : TRUE IN log[i].value + SumValues(at \ {i})

\* The value of the most recent setCost on the row (0 if there was none)
\* plus the deltas of the adds after it.
Replay(id, k) ==
    LET sets == {i \in OpsOn(id, k) : log[i].op = "setCost"}
        last == IF sets = {} THEN 0 ELSE CHOOSE i \in sets : \A j \in sets : j <= i
        base == IF last = 0 THEN 0 ELSE log[last].value
    IN  base + SumValues({i \in OpsOn(id, k) : log[i].op = "add" /\ i > last})

\* C7: the rows of the ledger are the rows some add or setCost was applied
\* to, each row holds the value of the most recent setCost on it (0 if there
\* was none) plus the deltas of the adds after it, and no step removes a row.
C7_StoredIsLastSetPlusAdds ==
    /\ [](\A id \in LedgerNames :
            /\ DOMAIN ledger[id] = {log[i].key : i \in {j \in 1..Len(log) : log[j].id = id}}
            /\ \A k \in DOMAIN ledger[id] : ledger[id][k] = Replay(id, k))
    /\ [][\A id \in LedgerNames : DOMAIN ledger[id] \subseteq DOMAIN ledger'[id]]_vars

\* C7 witness: an add, then a setCost, then an add on one row: the row holds
\* the value set plus the second delta.
C7_Witness ==
    /\ Len(log) = 3
    /\ log[1].op = "add" /\ log[2].op = "setCost" /\ log[3].op = "add"
    /\ log[1].key = log[2].key /\ log[2].key = log[3].key
    /\ log[1].value > 0 /\ log[2].value > 0 /\ log[3].value > 0
    /\ ledger["default"][log[1].key] = log[2].value + log[3].value

\* ------------------------------------------------- handlers side by side
\* All handlers at once, each with a request of user@example.com to the
\* OpenAI or the OpenRouter route, on one day, on a ledger that starts empty.
ConcurrentRequests ==
    {Request("POST", p, UserHeader, Undef, TRUE, PricedModel(p), "ok", Undef, 0, 0, Undef, Undef) :
        p \in {"openai", "openrouter"}}

NextConcurrent ==
    \/ \E r \in Reqs : \E q \in ConcurrentRequests : Receive(r, q)
    \/ \E r \in Reqs : \E ev \in Bodies(req[r].q.route) :
            UpstreamRespond(r, Response("json", 200, ev))
    \/ \E r \in Reqs : LedgerAdd(r)

SpecConcurrent == InitLedger /\ [][NextConcurrent]_vars

\* The delta of a handler: the cost of the JSON body it was answered with.
DeltaOf(h) ==
    IF AnsweredJson(h) /\ h.body = "upstream"
    THEN cost(h.q.route, parse(h.q.route, h.resp.ev).model, parse(h.q.route, h.resp.ev).usage,
              openrouterDirectory).cost
    ELSE 0

RECURSIVE SumDeltas(_)
SumDeltas(rs) ==
    IF rs = {} THEN 0
    ELSE LET r == CHOOSE x \in rs : TRUE IN DeltaOf(req[r]) + SumDeltas(rs \ {r})

\* C8: once the handlers of concurrent requests of one email have all
\* finished, the row (email, today) has grown by the sum of their deltas,
\* whatever the order of their steps; every write went to the ledger
\* instance "default" and no other instance holds a row.
C8_ConcurrentAddsCompose ==
    /\ \A i \in 1..Len(log) : log[i].id = "default"
    /\ \A id \in LedgerNames \ {"default"} : ledger[id] = EmptyTable
    /\ (\A r \in Reqs : req[r].pc \in {"idle", "done"})
        => rowToday(ledger, "user@example.com") = SumDeltas(Reqs)

\* C8 witness: two handlers were admitted before either had added (both
\* read a sum of 0), both have added, and the row holds both deltas.
C8_Witness ==
    /\ req[1].pc = "done" /\ req[2].pc = "done"
    /\ req[1].usage = 0 /\ req[2].usage = 0
    /\ req[1].writes = 1 /\ req[2].writes = 1
    /\ DeltaOf(req[1]) = 1 /\ DeltaOf(req[2]) = 3
    /\ rowToday(ledger, "user@example.com") = 4

\* ------------------------------------------------- tokens and rotations
\* Tokens are minted by /token and /admin/token, presented on the routes
\* behind the authentication, and the operator rotates salts in between.
MintRequests ==
    {Request("GET", "token", NoHeader, Undef, FALSE, Undef, "none", e, 0, 0, "verified", Undef) :
        e \in {"user@example.com", "guest@other.org", "admin@example.com"}}

\* The requests that present token t.
Presenting(t) ==
    {Request("GET", "usage", Header(TRUE, t), Undef, FALSE, Undef, "none", Undef, 0, 0,
             Undef, Undef),
     Request("POST", "openai", Header(TRUE, t), Undef, TRUE, "gpt-4.1-nano", "ok", Undef, 0, 0,
             Undef, Undef),
     Request("GET", "admin", Header(TRUE, t), "token", FALSE, Undef, "none", "guest@other.org",
             0, 0, Undef, Undef)}

NextToken ==
    \/ \E q \in MintRequests : Receive(1, q)
    \/ \E t \in minted : \E q \in Presenting(t) : Receive(1, q)
    \/ UpstreamRespond(1, Response("other", 200, EmptyEvent))
    \/ Retire(1)
    \/ \E e \in {"user@example.com", "guest@other.org"} : RotateSalt(e)

SpecToken == Init /\ [][NextToken]_vars

\* C9: a token minted before the latest change of the salt entry of its
\* email is answered 401 "no longer valid" on every route behind the
\* authentication, a minted token whose email has had no change since is
\* not answered 401, and a change of the salt map leaves every ledger entry
\* as it was.
C9_RotateToRevoke ==
    [][/\ \A r \in Reqs :
            (/\ req[r].pc = "idle" /\ req'[r].pc # "idle"
             /\ ReachesVerify(req'[r].q)
             /\ credOf(req'[r]) \in minted)
            => IF credOf(req'[r]) \in revoked
               THEN req'[r].status = 401 /\ req'[r].message = "no longer valid"
               ELSE req'[r].status # 401
       /\ salt' # salt => ledger' = ledger]_vars

\* C9 witness: guest@other.org had no salt entry when its token was minted;
\* an entry was added, and the token was answered 401.
C9_Witness ==
    \E r \in Reqs :
        /\ req[r].pc = "done" /\ ReachesVerify(req[r].q)
        /\ credOf(req[r]) = Jwt("guest@other.org", Undef, AIPIPE_SECRET)
        /\ credOf(req[r]) \in revoked
        /\ salt["guest@other.org"] # Undef
        /\ req[r].status = 401 /\ req[r].message = "no longer valid"

\* ------------------------------------------------------------- C11..C20
\* A request to a route behind the authentication.
Authenticated(q) == q.method # "OPTIONS" /\ q.route \in Providers \cup {"usage", "admin"}

\* C11: a request to a route behind the authentication whose Authorization
\* header is absent or does not start with "Bearer " is answered 401, reads
\* and writes no ledger and issues no upstream request.
C11_NoBearerPrefixIs401 ==
    \A r \in Reqs :
        LET h == req[r] IN
        (/\ h.pc # "idle" /\ Authenticated(h.q)
         /\ (~h.q.header.present \/ ~h.q.header.bearer))
        => (/\ h.status = 401 /\ h.upstream = 0 /\ h.writes = 0 /\ h.usage = NoNum
            /\ h.body \notin {"usage", "rows"})

\* The handler's request presents a native provider key.
Native(h) == h.q.header.present /\ credOf(h).kind = "native"

\* C12: a request to a provider route with a native provider key is not
\* answered 401 or 429, whatever the ledger holds, and is forwarded
\* upstream with the client's key as the upstream credential.
C12_NativeKeyForwarded ==
    \A r \in Reqs :
        LET h == req[r] IN
        (h.pc # "idle" /\ h.q.method # "OPTIONS" /\ h.q.route \in Providers /\ Native(h))
        => (/\ h.status \notin {401, 429}
            /\ h.upstream >= 1
            /\ h.upstreamKey = "client")

\* C13: a request to /usage or /admin with a native provider key is
\* answered 401 with a message that says an AIPipe JWT token is required,
\* and no ledger data is returned or changed.
C13_NativeKeyOnUsageOrAdmin ==
    \A r \in Reqs :
        LET h == req[r] IN
        (h.pc # "idle" /\ h.q.method # "OPTIONS" /\ h.q.route \in {"usage", "admin"} /\ Native(h))
        => (/\ h.status = 401
            /\ h.message = "requires AIPipe JWT token"
            /\ h.body \notin {"usage", "rows"}
            /\ h.writes = 0)

\* The 401 of C13 without the wording of the message.
C13_NativeKeyIs401 ==
    \A r \in Reqs :
        LET h == req[r] IN
        (h.pc # "idle" /\ h.q.method # "OPTIONS" /\ h.q.route \in {"usage", "admin"} /\ Native(h))
        => (h.status = 401 /\ h.body \notin {"usage", "rows"} /\ h.writes = 0)

\* The request names a model the pricing table of its route does not have.
UnknownModel(q) ==
    \/ q.route = "openai" /\ q.model \notin DOMAIN openaiCost
    \/ q.route = "geminiv1beta" /\ q.model # Undef /\ q.model \notin DOMAIN geminiCost

\* C14: an admitted identity-token POST with a JSON body to the OpenAI or
\* the Gemini route that names a model without pricing is answered 400
\* "pricing unknown" with no upstream request and no ledger write; the same
\* request with a native key is not answered by this gate and is forwarded.
C14_PricingGate ==
    \A r \in Reqs :
        LET h == req[r] IN
        (h.pc # "idle" /\ h.q.method = "POST" /\ h.q.ctJson /\ UnknownModel(h.q))
        => /\ (HasIdentity(h) /\ h.usage < h.limit)
                => (/\ h.status = 400 /\ h.message = "pricing unknown"
                    /\ h.upstream = 0 /\ h.writes = 0)
           /\ Native(h) => (h.message # "pricing unknown" /\ h.upstream >= 1)

\* The gate of C14 for identity tokens alone.
C14_IdentityGate ==
    \A r \in Reqs :
        LET h == req[r] IN
        (/\ h.pc # "idle" /\ h.q.method = "POST" /\ h.q.ctJson /\ UnknownModel(h.q)
         /\ HasIdentity(h) /\ h.usage < h.limit)
        => (/\ h.status = 400 /\ h.message = "pricing unknown"
            /\ h.upstream = 0 /\ h.writes = 0)

\* ------------------------------------------------ the similarity adapter
\* Arrays of at most n items.
RECURSIVE ItemLists(_)
ItemLists(n) ==
    IF n = 0 THEN {<<>>}
    ELSE LET shorter == ItemLists(n - 1) IN
         shorter \cup {Append(l, d) : l \in {x \in shorter : Len(x) = n - 1},
                                      d \in {Doc("a"), DocObject("b"), BadDoc}}

\* Similarity bodies of user@example.com: docs non-empty, topics absent or
\* an array (possibly empty).
SimilarityRequests ==
    {[Request("POST", "similarity", UserHeader, Undef, TRUE, Undef, "ok", Undef, 0, 0,
              Undef, Undef)
        EXCEPT !.docsList = d, !.hasTopics = ht, !.topics = IF ht THEN t ELSE <<>>] :
        d \in ItemLists(MaxDocs) \ {<<>>}, ht \in BOOLEAN, t \in ItemLists(MaxDocs)}

NextSimilarity ==
    \/ \E q \in SimilarityRequests : Receive(1, q)
    \/ \E resp \in Responses("similarity") : EmbeddingRespond(1, resp)
    \/ LedgerAdd(1)

SpecSimilarity == Init /\ [][NextSimilarity]_vars

\* A handler whose similarity request has sent its embeddings request.
Embedded(h) == h.q.route = "similarity" /\ h.upstream >= 1

\* C15: the embeddings request of a similarity call has |docs| input items
\* when the body has no topics, and |docs| + |topics| when it has.
C15_EmbeddingsInput ==
    \A r \in Reqs :
        LET h == req[r] IN
        Embedded(h)
        => Len(h.input) = Len(h.q.docsList) + (IF h.q.hasTopics THEN Len(h.q.topics) ELSE 0)

\* C15 for bodies with topics, where it holds.
C15_WithTopics ==
    \A r \in Reqs :
        LET h == req[r] IN
        (Embedded(h) /\ h.q.hasTopics)
        => h.input = extractValues(h.q.docsList) \o extractValues(h.q.topics)

\* Two docs and one topic gave an embeddings request of three items.
C15_WithTopicsWitness ==
    \E r \in Reqs :
        /\ Embedded(req[r]) /\ req[r].q.hasTopics
        /\ Len(req[r].q.docsList) = 2 /\ Len(req[r].q.topics) = 1 /\ Len(req[r].input) = 3

\* C16: at every point of an SSE response the chunks enqueued downstream
\* are the chunks read from the upstream so far, the same ones in the same
\* order, whether or not their frames parse, carry a usage or are cut by
\* a chunk boundary.
C16_PassThrough ==
    \A r \in Reqs :
        LET h == req[r] IN
        Streams(h) => h.out = h.received

\* C16 witness: a malformed frame and the first half of a frame were read
\* and are downstream while the stream is still open.
C16_Witness ==
    \E r \in Reqs :
        LET h == req[r] IN
        /\ Streams(h) /\ h.pc = "stream" /\ h.q.route = "openai"
        /\ h.received = <<Malformed, <<DataPrefix, JsonHead(UsageFrame("openai", Undef, 2))>> >>
        /\ h.out = h.received

\* A handler on a provider route whose upstream answered with JSON or with
\* an event stream and whose metering threw.
MeteringFailed(h) ==
    /\ h.failed /\ h.q.route \in Providers \ {"similarity"}
    /\ h.resp.ct \in {"json", "sse"}

\* C17: when the cost calculation or the ledger add throws, on the JSON
\* path as on the SSE path, the client still gets the upstream's status and
\* its complete body: no error status and no stream error in their place.
C17_MeteringFailureKeepsResponse ==
    \A r \in Reqs :
        LET h == req[r] IN
        MeteringFailed(h)
        => (/\ h.status = h.resp.status
            /\ h.body = (IF h.resp.ct = "json" THEN "upstream" ELSE "stream"))

\* C18: while the ledger add of a metered response is awaited, JSON as
\* well as SSE, the response has already been returned to the client.
C18_ResponseNotWithheld ==
    \A r \in Reqs :
        LET h == req[r] IN
        (h.pc = "add" /\ h.q.route \in Providers \ {"similarity"}) => h.status # 0

\* C18 on the SSE path, where it holds: the add is awaited in flush, after
\* every chunk has gone downstream.
C18_StreamNotWithheld ==
    \A r \in Reqs :
        LET h == req[r] IN
        (h.pc = "add" /\ Streams(h)) => (h.status = h.resp.status /\ h.out = h.received)

\* A streaming response whose chunks reached the client while its ledger add
\* is still pending.
C18_StreamWitness ==
    \E r \in Reqs :
        /\ req[r].pc = "add" /\ Streams(req[r]) /\ Len(req[r].out) = 1
        /\ req[r].status = 200 /\ req[r].delta > 0

\* The policy a handler works with.
PolicyUsed(h) == [limit |-> h.limit, days |-> h.days]

\* C19: the (limit, days) a handler uses for admission and reports on
\* /usage is the entry of the email when the budget map has one, else the
\* entry of its domain, else the entry "*", else {limit: 0, days: 1}.
C19_BudgetLookup ==
    \A r \in Reqs :
        LET h == req[r]
            e == h.email
            d == domainOf(h.email)
        IN  (HasIdentity(h) /\ h.q.route \in Providers \cup {"usage"})
            => /\ e \in DOMAIN budget => PolicyUsed(h) = budget[e]
               /\ (e \notin DOMAIN budget /\ d \in DOMAIN budget) => PolicyUsed(h) = budget[d]
               /\ ({e, d} \cap DOMAIN budget = {} /\ "*" \in DOMAIN budget)
                    => PolicyUsed(h) = budget["*"]
               /\ {e, d, "*"} \cap DOMAIN budget = {}
                    => PolicyUsed(h) = [limit |-> 0, days |-> 1]

\* C19 witness: user@example.com has an entry of its own, a domain entry
\* and "*" to fall back on, all different, and /usage reports its own.
C19_Witness ==
    \E r \in Reqs :
        LET h == req[r] IN
        /\ h.pc = "done" /\ h.q.route = "usage" /\ h.body = "usage"
        /\ h.email = "user@example.com" /\ budget = budgetExample
        /\ budget["user@example.com"] # budget["@example.com"]
        /\ budget["@example.com"] # budget["*"]
        /\ PolicyUsed(h) = budget["user@example.com"]

\* The sum of the rows of email dated from..to in a table.
RECURSIVE SumDates(_, _, _, _)
SumDates(table, email, from, to) ==
    IF from > to THEN 0
    ELSE (IF <<email, to>> \in DOMAIN table THEN table[<<email, to>>] ELSE 0)
         + SumDates(table, email, from, to - 1)

\* A step in which a handler reads the ledger sum of its email, for
\* admission or for /usage.
ReadsSum(r) == req[r].pc = "idle" /\ req'[r].pc # "idle" /\ req'[r].usage # NoNum

\* C20: the sum a handler reads for (email, days) is the sum of the rows of
\* the email dated today - (days - 1) through today: the `days` dates that
\* end today, no row dated today - days or earlier and every row in between.
C20_WindowIsDaysDates ==
    [][\A r \in Reqs :
        ReadsSum(r)
        => LET h == req'[r] IN
           h.usage = SumDates(ledger[aiPipeCostId(h.email)], h.email,
                              today - (h.days - 1), today)]_vars

\* What the sum covers: the days + 1 dates today - days through today.
C20_WindowOfDateRange ==
    [][\A r \in Reqs :
        ReadsSum(r)
        => LET h == req'[r] IN
           h.usage = SumDates(ledger[aiPipeCostId(h.email)], h.email, today - h.days, today)]_vars

\* user@example.com (days = 2) has a row dated today - 2 and /usage counts it.
C20_WindowOfDateRangeWitness ==
    \E r \in Reqs :
        LET h == req[r] IN
        /\ h.pc = "done" /\ h.q.route = "usage" /\ h.email = "user@example.com" /\ h.days = 2
        /\ today = 2 /\ DOMAIN ledger["default"] = {<<"user@example.com", 0>>}
        /\ h.usage = 2

\* ------------------------------------------------------ read after overwrite
\* The last operation of the log on row k of instance id (0 when there is
\* none).
LastOpOn(id, k) ==
    IF OpsOn(id, k) = {} THEN 0 ELSE CHOOSE i \in OpsOn(id, k) : \A j \in OpsOn(id, k) : j <= i

\* A step in which a handler answers /usage.
AnswersUsage(r) ==
    req[r].pc = "idle" /\ req'[r].pc = "done" /\ req'[r].body = "usage" /\ req'[r].status = 200

\* C21: when /usage is answered for e and the last ledger operation on
\* (e, d), d being one of the `days` dates that end today, is a setCost of
\* v, the answer has a row for d whose cost is v.
C21_ReadAfterOverwrite ==
    [][\A r \in Reqs :
        AnswersUsage(r)
        => LET h == req'[r]
               id == aiPipeCostId(h.email)
           IN  \A d \in (today - (h.days - 1))..today :
                   LET i == LastOpOn(id, <<h.email, d>>) IN
                   (i # 0 /\ log[i].op = "setCost")
                   => (d \in DOMAIN h.rows /\ h.rows[d] = log[i].value)]_vars

\* C21 witness: the row of user@example.com for today was set to 2, then
\* to 0, and /usage answers with a row for today whose cost is 0.
C21_Witness ==
    \E r \in Reqs :
        LET h == req[r] IN
        /\ h.pc = "done" /\ h.body = "usage" /\ h.email = "user@example.com"
        /\ today \in DOMAIN h.rows /\ h.rows[today] = 0
        /\ \E i, j \in OpsOn("default", <<"user@example.com", today>>) :
               /\ i < j /\ j = LastOpOn("default", <<"user@example.com", today>>)
               /\ log[i].op = "setCost" /\ log[i].value = 2
               /\ log[j].op = "setCost" /\ log[j].value = 0

\* ------------------------------------------------------- non-negative costs
\* C22: every row of every ledger holds a cost that is not negative.
C22_CostsNonNegative ==
    \A n \in LedgerNames : \A k \in DOMAIN ledger[n] : ledger[n][k] >= 0

\* The metered adds keep their part: every add of the log has a positive
\* argument, and only a setCost makes a row negative.
C22_AddsArePositive ==
    \A i \in 1..Len(log) : log[i].op = "add" => log[i].value > 0

C22_AddsArePositiveWitness ==
    \E i, j \in 1..Len(log) :
        /\ i < j /\ log[i].key = log[j].key
        /\ log[i].op = "setCost" /\ log[i].value < 0
        /\ log[j].op = "add"
        /\ ledger[log[j].id][log[j].key] = log[i].value + log[j].value

\* --------------------------------------------------- mint/verify round trip
\* A step in which a handler answers /token or /admin/token?email=E with a
\* token.
Mints(r) ==
    /\ req[r].pc = "idle" /\ req'[r].pc = "done"
    /\ req'[r].body = "token" /\ req'[r].status = 200
    /\ req'[r].q.email # Undef

\* C23: the token minted for E by /token or by /admin/token?email=E is
\* signed with the secret and its payload is {email: E} plus the salt map's
\* entry for E when there is one and no salt when there is none; presented
\* on a route behind the authentication while the entry is as it was at the
\* mint, it is not answered 401 and the caller's identity is E.
C23_MintVerifyRoundTrip ==
    [][\A r \in Reqs :
        /\ Mints(r)
           => LET E == req'[r].q.email IN
              \E t \in minted' :
                  /\ minted' = minted \cup {t}
                  /\ t = Jwt(E, salt[E], AIPIPE_SECRET)
        /\ (/\ req[r].pc = "idle" /\ req'[r].pc # "idle"
            /\ ReachesVerify(req'[r].q)
            /\ credOf(req'[r]) \in minted \ revoked)
           => (req'[r].status # 401 /\ req'[r].email = credOf(req'[r]).email)]_vars

\* C23 witness: /admin/token?email=guest@other.org has minted a token
\* without a salt, /token has minted one for user@example.com that carries
\* the salt entry, and the latter is accepted on /usage as user@example.com.
C23_Witness ==
    \E r \in Reqs :
        LET h == req[r] IN
        /\ Jwt("guest@other.org", Undef, AIPIPE_SECRET) \in minted \ revoked
        /\ credOf(h) = Jwt("user@example.com", "random-text", AIPIPE_SECRET)
        /\ credOf(h) \in minted \ revoked
        /\ h.pc = "done" /\ h.q.route = "usage" /\ h.status = 200
        /\ h.email = "user@example.com"

\* ------------------------------------------------------- OpenRouter dollars
\* The events of the well-formed data frames the handler's stream has
\* carried so far, in stream order.
RawFrames(h) ==
    LET all == split(StreamText(h.received))
        lines == SubSeq(all, 1, Len(all) - 1)
        at == {i \in 1..Len(lines) : startsWithData(lines[i]) /\ jsonParse(lines[i]).ok}
    IN  [i \in at |-> unwrap(jsonParse(lines[i]).ev)]

\* The model and the usage the upstream reported to the handler: those of
\* its JSON body, or the first of each in its stream.
ReportedModel(h) ==
    IF h.resp.ct = "json" THEN unwrap(h.resp.ev).model
    ELSE LET f == RawFrames(h)
             at == {i \in DOMAIN f : f[i].model # Undef}
         IN  IF at = {} THEN Undef ELSE f[CHOOSE i \in at : \A j \in at : i <= j].model

ReportedUsage(h) ==
    IF h.resp.ct = "json" THEN unwrap(h.resp.ev).usage
    ELSE LET f == RawFrames(h)
             at == {i \in DOMAIN f : f[i].usage.present}
         IN  IF at = {} THEN NoUsage ELSE f[CHOOSE i \in at : \A j \in at : i <= j].usage

\* A counter of a usage, 0 when it is not there.
Tokens(n) == IF n = NoNum THEN 0 ELSE n

\* The dollars of a usage at the rates of the model in the directory, with
\* or without the counters of completion_tokens_details.
Dollars(model, u, details) ==
    IF model = Undef \/ model \notin DOMAIN openrouterDirectory THEN 0
    ELSE LET rate == openrouterDirectory[model] IN
         Tokens(u.prompt_tokens) * rate.prompt
         + Tokens(u.completion_tokens) * rate.completion
         + (IF details
            THEN Tokens(u.reasoning_tokens) * rate.internal_reasoning
                 + Tokens(u.image_tokens) * rate.image
            ELSE 0)
         + rate.request

\* The handler of an OpenRouter request with an identity is about to add
\* to the ledger.
OpenRouterAdds(h) == h.q.route = "openrouter" /\ HasIdentity(h) /\ h.pc = "add"

\* C24: the amount an OpenRouter request adds to the ledger is
\* prompt_tokens * rate.prompt + completion_tokens * rate.completion
\* + reasoning_tokens * rate.internal_reasoning + image_tokens * rate.image
\* + rate.request, from the usage the upstream reported and the rates of
\* the model, for JSON and for SSE responses.
C24_OpenRouterDollars ==
    \A r \in Reqs :
        LET h == req[r] IN
        OpenRouterAdds(h) => h.delta = Dollars(ReportedModel(h), ReportedUsage(h), TRUE)

\* What is added: the same sum without the two terms of
\* completion_tokens_details, which parse drops from the usage.
C24_WithoutDetails ==
    \A r \in Reqs :
        LET h == req[r] IN
        OpenRouterAdds(h) => h.delta = Dollars(ReportedModel(h), ReportedUsage(h), FALSE)

C24_WithoutDetailsWitness ==
    \E r \in Reqs :
        LET h == req[r] IN
        /\ OpenRouterAdds(h) /\ h.resp.ct = "sse"
        /\ ReportedUsage(h).reasoning_tokens = 1 /\ ReportedUsage(h).image_tokens = 1
        /\ h.delta = 2

\* ------------------------------------------------------ Gemini's key header
\* The handler's request was forwarded to the Gemini upstream.
ForwardedToGemini(h) == h.q.route = "geminiv1beta" /\ h.upstream >= 1

\* C25: a request forwarded to the Gemini upstream carries no Authorization
\* header and carries x-goog-api-key with the effective provider key: the
\* server's for a request with an identity token, the client's own for a
\* request with a native AIza key, which is forwarded.
C25_GeminiKeyHeader ==
    \A r \in Reqs :
        LET h == req[r] IN
        /\ ForwardedToGemini(h)
           => (/\ h.upstreamHeader = "x-goog-api-key"
               /\ h.upstreamKey = IF Native(h) THEN "client" ELSE "env")
        /\ (/\ h.pc # "idle" /\ h.q.method # "OPTIONS" /\ h.q.route = "geminiv1beta"
            /\ Native(h) /\ credOf(h) = NativeKey("AIza"))
           => ForwardedToGemini(h)

\* The half about identity tokens: forwarded with the server's key in
\* x-goog-api-key and without Authorization.
C25_IdentityHalf ==
    \A r \in Reqs :
        LET h == req[r] IN
        ForwardedToGemini(h)
        => (HasIdentity(h) /\ h.upstreamHeader = "x-goog-api-key" /\ h.upstreamKey = "env")

C25_IdentityHalfWitness ==
    \E r \in Reqs :
        LET h == req[r] IN
        /\ ForwardedToGemini(h) /\ h.q.header.bearer /\ credOf(h).kind = "jwt"
        /\ h.upstreamHeader = "x-goog-api-key" /\ h.upstreamKey = "env"

\* ------------------------------------------------------------ CORS headers
\* The response carries the four CORS headers with the worker's values.
HasCors(h) ==
    /\ h.cors.origin = "*"
    /\ h.cors.methods = "GET, POST"
    /\ h.cors.headers = "Authorization, Content-Type"
    /\ h.cors.expose = "*"

\* C26: every response, on every route and for every outcome, carries
\* Access-Control-Allow-Origin: *, Access-Control-Allow-Methods: GET, POST,
\* Access-Control-Allow-Headers: Authorization, Content-Type and
\* Access-Control-Expose-Headers: *.
C26_EveryResponseHasCors ==
    \A r \in Reqs : req[r].status # 0 => HasCors(req[r])

\* The responses the worker's code builds carry them, over the upstream's
\* own; the 500 of a handler that threw is the one response that does not.
C26_BuiltResponsesHaveCors ==
    \A r \in Reqs :
        LET h == req[r] IN
        h.status # 0 => (HasCors(h) <=> ~(h.status = 500 /\ h.body = "exception"))

C26_BuiltResponsesHaveCorsWitness ==
    \E r \in Reqs :
        LET h == req[r] IN
        /\ h.pc = "done" /\ h.q.route = "openai" /\ h.body = "upstream"
        /\ h.resp.status = 400 /\ h.status = 400
        /\ UpstreamCors.origin # "*" /\ HasCors(h)

\* ---------------------------------------------------------------- preflight
\* The answer to a preflight apart from Access-Control-Allow-Headers:
\* status 200, no body, the origin, methods and max-age headers, and no
\* authentication, ledger access or upstream request.
PreflightAnswer(h) ==
    /\ h.pc = "done" /\ h.status = 200 /\ h.body = "none"
    /\ h.cors.origin = "*" /\ h.cors.methods = "GET, POST" /\ h.cors.maxAge = "86400"
    /\ h.email = Undef /\ h.usage = NoNum /\ h.upstream = 0 /\ h.writes = 0

\* C27: an OPTIONS request to any path, with or without an Authorization
\* header, is answered 200 without a body, with Access-Control-Allow-Origin:
\* *, Access-Control-Allow-Methods: GET, POST, Access-Control-Max-Age: 86400
\* and an Access-Control-Allow-Headers that echoes the request's
\* Access-Control-Request-Headers, without authentication, ledger access or
\* upstream request.
C27_PreflightEchoesHeaders ==
    \A r \in Reqs :
        LET h == req[r] IN
        (h.pc # "idle" /\ h.q.method = "OPTIONS")
        => (/\ PreflightAnswer(h)
            /\ h.q.acrh # Undef => h.cors.headers = h.q.acrh)

\* What the preflight answers: all of the above with the fixed
\* Access-Control-Allow-Headers of addCors, whatever the request asks for.
C27_PreflightFixedHeaders ==
    \A r \in Reqs :
        LET h == req[r] IN
        (h.pc # "idle" /\ h.q.method = "OPTIONS")
        => (PreflightAnswer(h) /\ h.cors.headers = "Authorization, Content-Type")

C27_PreflightFixedHeadersWitness ==
    \E r \in Reqs :
        LET h == req[r] IN
        /\ h.q.method = "OPTIONS" /\ h.q.route = "does-not-exist" /\ h.q.header.present
        /\ h.q.acrh = "X-Custom-Header"
        /\ PreflightAnswer(h) /\ h.cors.headers = "Authorization, Content-Type"

\* ------------------------------------------------------------------- proxy
\* The handler serves a /proxy/<http-url> request.
ProxiesHttp(h) ==
    /\ h.pc # "idle" /\ h.q.method # "OPTIONS" /\ h.q.route = "proxy"
    /\ Len(h.q.target) >= 1 /\ h.q.target[1].http

\* Nothing of the authentication, the admission or the ledger happened.
NoAuthNoLedger(h) ==
    /\ h.email = Undef /\ h.limit = NoNum /\ h.usage = NoNum /\ h.writes = 0
    /\ h.status \notin {401, 403, 429}

\* C28: a /proxy/<http-url> request is served without token verification,
\* budget admission or ledger access whatever its Authorization header,
\* the target is fetched, and the response has the upstream's status and
\* body and X-Proxy-URL equal to the original target URL, query string
\* included.
C28_ProxyNoAuth ==
    \A r \in Reqs :
        LET h == req[r] IN
        ProxiesHttp(h)
        => (/\ NoAuthNoLedger(h)
            /\ h.upstream = 1 /\ h.fetched = h.q.target
            /\ (h.pc = "done" /\ h.body = "upstream")
               => (h.status = h.resp.status /\ h.xProxyUrl = h.q.target))

\* What is fetched and reported is the target up to its first "/proxy/":
\* the whole target when it has none.
C28_ProxyUpToSeparator ==
    \A r \in Reqs :
        LET h == req[r] IN
        ProxiesHttp(h)
        => (/\ NoAuthNoLedger(h)
            /\ h.upstream = 1 /\ h.fetched = <<h.q.target[1]>>
            /\ (h.pc = "done" /\ h.body = "upstream")
               => (h.status = h.resp.status /\ h.xProxyUrl = <<h.q.target[1]>>))

C28_ProxyUpToSeparatorWitness ==
    \E r \in Reqs :
        LET h == req[r] IN
        /\ ProxiesHttp(h) /\ h.pc = "done" /\ h.body = "upstream" /\ h.status = 404
        /\ credOf(h) = Jwt("blocked@example.com", Undef, AIPIPE_SECRET)
        /\ h.q.target = <<Text(TRUE, "https://example.com/a?x=1")>>
        /\ h.xProxyUrl = h.q.target

\* C29: a /proxy/<target> request whose target does not begin with http is
\* answered 400 "URL must begin with http" and no outbound request is made.
C29_ProxyRequiresHttp ==
    \A r \in Reqs :
        LET h == req[r] IN
        (/\ h.pc # "idle" /\ h.q.method # "OPTIONS" /\ h.q.route = "proxy"
         /\ Len(h.q.target) >= 1 /\ ~h.q.target[1].http)
        => (/\ h.pc = "done" /\ h.status = 400 /\ h.message = "URL must begin with http"
            /\ h.upstream = 0 /\ h.fetched = <<>>)

\* C29 witness: /proxy/ftp://example.com/a is answered 400.
C29_Witness ==
    \E r \in Reqs :
        LET h == req[r] IN
        /\ h.q.route = "proxy" /\ h.q.target = <<Text(FALSE, "ftp://example.com/a")>>
        /\ h.pc = "done" /\ h.status = 400 /\ h.message = "URL must begin with http"
        /\ h.upstream = 0

\* ----------------------------------------------------------- unknown route
\* The first path segment of the handler's non-OPTIONS request is not
\* token, usage, admin, proxy or a registered provider.
UnknownRoute(h) ==
    /\ h.pc # "idle" /\ h.q.method # "OPTIONS"
    /\ h.q.route \notin Providers \cup {"token", "usage", "admin", "proxy"}

\* 404 "Unknown provider", with no authentication, ledger access or
\* upstream request.
Is404(h) ==
    /\ h.pc = "done" /\ h.status = 404 /\ h.message = "Unknown provider"
    /\ h.email = Undef /\ h.usage = NoNum /\ h.upstream = 0 /\ h.writes = 0

\* C30: a non-OPTIONS request whose first path segment is not token, usage,
\* admin, proxy or a registered provider is answered 404 "Unknown provider"
\* before authentication, whether its Authorization header is absent,
\* invalid or valid, and touches neither the ledger nor an upstream.
C30_UnknownRouteIs404 ==
    \A r \in Reqs : UnknownRoute(req[r]) => Is404(req[r])

\* The 404 is given to the segments that are no property of the providers
\* object at all; an inherited property name goes on to the authentication.
C30_NoPropertyIs404 ==
    \A r \in Reqs :
        LET h == req[r] IN
        UnknownRoute(h) => (Is404(h) <=> h.q.route \notin ObjectPrototypeKeys)

C30_NoPropertyIs404Witness ==
    \E r \in Reqs :
        LET h == req[r] IN
        /\ UnknownRoute(h) /\ h.q.route = "does-not-exist"
        /\ credOf(h) = Jwt("user@example.com", "random-text", AIPIPE_SECRET)
        /\ Is404(h)

\* ------------------------------------------------ admission on a snapshot
\* The window sum of the handler's email as the ledger holds it now.
WindowNow(h) == ledgerCost(ledger[aiPipeCostId(h.email)], h.email, h.days, today)

\* C31: admission reads the ledger once, when the request is received, and
\* admits exactly when that sum is below the limit; the sum a handler read
\* never changes afterwards, an admitted handler is never answered 429 and
\* adds its full cost even when that takes the window sum above the limit;
\* every add of the ledger is of a handler that was admitted below the limit.
C31_AdmissionOnSnapshot ==
    /\ [][\A r \in Reqs :
            /\ (req[r].pc = "idle" /\ req'[r].pc # "idle" /\ req'[r].usage # NoNum)
               => (/\ req'[r].usage = WindowNow(req'[r])
                   /\ req'[r].status = 429 <=> req'[r].usage >= req'[r].limit
                   /\ req'[r].status # 429 => req'[r].upstream = 1)
            /\ (req[r].pc # "idle" /\ req'[r].pc # "idle")
               => (/\ req'[r].usage = req[r].usage
                   /\ req'[r].upstream = req[r].upstream
                   /\ req[r].status # 429 => req'[r].status # 429)]_vars
    /\ [](\A r \in Reqs :
            LET h == req[r] IN
            /\ h.writes >= 1 => h.usage < h.limit
            /\ (h.pc = "done" /\ AnsweredJson(h)) => h.charged = DeltaOf(h))

\* C31 witness: two handlers of user@example.com (limit 3) were admitted on
\* a sum of 0, both added their full cost, and the window sum is 4.
C31_Witness ==
    /\ \A r \in {1, 2} :
            /\ req[r].pc = "done" /\ req[r].usage = 0 /\ req[r].limit = 3
            /\ req[r].charged = DeltaOf(req[r]) /\ req[r].charged > 0
    /\ WindowNow(req[1]) = 4 /\ WindowNow(req[1]) > req[1].limit

\* ------------------------------------------------ the OpenRouter models list
\* A chat completion through OpenRouter by the user.
CacheRequests ==
    {Request("POST", "openrouter", UserHeader, Undef, TRUE, "openrouter/test-model", "ok", Undef,
             0, 0, Undef, Undef)}

\* The bodies OpenRouter answers with: one prompt token of the priced model,
\* of the free model, of a model in no list, and a body without a model.
CacheBodies ==
    {Event(FALSE, m, Undef, Usage(1, NoNum, NoNum, NoNum, NoNum, NoNum, NoNum), NoUsage) :
        m \in {"openrouter/test-model", "openrouter/free-model", "openrouter/unlisted", Undef}}

NextCache ==
    \/ \E q \in CacheRequests : Receive(1, q)
    \/ \E ev \in CacheBodies : UpstreamRespond(1, Response("json", 200, ev))
    \/ LedgerAdd(1)
    \/ Retire(1)
    \/ Publish

SpecCache == Init /\ [][NextCache]_vars

\* The step in which handler r meters a JSON body of OpenRouter.
LooksUp(r) ==
    /\ req[r].pc = "upstream"
    /\ req[r].q.route = "openrouter"
    /\ req'[r].pc # "upstream"
    /\ req'[r].resp.ct = "json"

\* The model id that step looks up.
LookedUp(r) == req'[r].resp.ev.model

\* The lookup of handler r finds no entry for a model id.
Misses(r) == LookedUp(r) # Undef /\ LookedUp(r) \notin DOMAIN openrouterModels

\* The price of one prompt token of model m under the list `models`.
OnePromptToken(m, models) ==
    IF m = Undef \/ m \notin DOMAIN models THEN 0
    ELSE models[m].prompt + models[m].request

\* C32: a cost lookup for a model id in the cached list downloads nothing,
\* leaves the cache alone and charges the cached rates; a lookup for a model
\* id not in the cache (the empty cache included) downloads the list exactly
\* once and replaces the whole cache with it, so every model's rates become
\* the downloaded ones; the cache changes in no other step, so a stale rate
\* stays until such a miss.
C32_ModelsCache ==
    /\ [][\A r \in Reqs :
            LooksUp(r) =>
                /\ Misses(r) =>
                        /\ req'[r].listFetches = 1
                        /\ openrouterModels' = ModelsList(published)
                /\ ~Misses(r) =>
                        /\ req'[r].listFetches = 0
                        /\ openrouterModels' = openrouterModels
                /\ req'[r].delta =
                        OnePromptToken(LookedUp(r), openrouterModels')]_vars
    /\ [][openrouterModels' # openrouterModels => \E r \in Reqs : LooksUp(r) /\ Misses(r)]_vars

\* A hit on the priced model charges the rates that a miss on another model
\* downloaded after OpenRouter repriced it.
C32_Witness ==
    /\ req[1].pc = "add"
    /\ req[1].listFetches = 0
    /\ req[1].resp.ev.model = "openrouter/test-model"
    /\ openrouterModels = ModelsList(1)
    /\ req[1].delta = 3
    /\ \E i \in 1..Len(log) : log[i].value = 2

\* ------------------------------------------------------- transform errors
\* The handler passed authentication and admission on a provider route, so
\* the adapter's transform was called.
Transformed(h) ==
    /\ h.pc \notin {"idle"} /\ h.q.method # "OPTIONS" /\ h.q.route \in Providers
    /\ HasIdentity(h) /\ h.usage # NoNum /\ ~overLimit(h.usage, h.limit)

\* transform rejected the request before any request of its own.
RejectedInput(h) == Transformed(h) /\ transformError(h.q.route, h.q) # Undef

\* The similarity transform got an embeddings answer it returns as an error.
RejectedEmbeddings(h) ==
    /\ Transformed(h) /\ h.q.route = "similarity" /\ h.resp # NoResponse
    /\ (h.resp.status # 200 \/ h.resp.ct # "json")

\* The code of the error transform returned.
ErrorCode(h) ==
    IF RejectedInput(h) THEN 400
    ELSE IF h.resp.status # 200 THEN h.resp.status
    ELSE IF h.resp.ct = "nodata" THEN 500
    ELSE 400

\* The answer is the JSON error of that code and nothing was written.
ShortCircuited(h) ==
    /\ h.pc = "done" /\ h.status = ErrorCode(h) /\ h.body = "json" /\ h.message # Undef
    /\ h.writes = 0 /\ h.charged = 0 /\ log = <<>>

\* C33 as stated: when transform returns {error: {code, message}} the client
\* gets status code and a JSON body with the message, no upstream request is
\* issued and the ledger is unchanged.
C33_ErrorMeansNoFetch ==
    \A r \in Reqs :
        LET h == req[r] IN
        (RejectedInput(h) \/ RejectedEmbeddings(h)) => (ShortCircuited(h) /\ h.upstream = 0)

\* C33 amended: the same, except that the one upstream request that can have
\* been issued is the embeddings request the similarity transform makes
\* itself; the pipeline issues none after transform returned.
C33_ErrorShortCircuits ==
    \A r \in Reqs :
        LET h == req[r] IN
        /\ RejectedInput(h) => (ShortCircuited(h) /\ h.upstream = 0)
        /\ RejectedEmbeddings(h) =>
                (ShortCircuited(h) /\ h.upstream = 1 /\ h.input = similarityInput(h.q))

\* Both kinds of error have been answered: an OpenAI request without a JSON
\* body is covered by the first conjunct, a failed embeddings call here.
C33_Witness ==
    \E r \in Reqs :
        /\ RejectedEmbeddings(req[r]) /\ req[r].status = 500 /\ req[r].upstream = 1

\* An OpenAI request without a JSON body has been rejected by transform.
C33_InputWitness ==
    \E r \in Reqs :
        /\ RejectedInput(req[r]) /\ req[r].q.route = "openai" /\ ~req[r].q.ctJson
        /\ req[r].status = 400

\* ------------------------------------------------- other content types
\* The upstream of a provider route answered with a Content-Type that is
\* neither JSON nor an event stream (or with none).
AnsweredOther(h) ==
    /\ h.q.route \in Providers \ {"similarity"} /\ h.q.method # "OPTIONS"
    /\ h.resp.ct = "other"

\* C34: an upstream response whose Content-Type holds neither
\* application/json nor text/event-stream, a missing one included, is
\* forwarded as it is and changes no ledger row, whatever its body holds.
C34_OtherTypesUnmetered ==
    \A r \in Reqs :
        LET h == req[r] IN
        AnsweredOther(h) =>
            /\ h.pc = "done" /\ h.status = h.resp.status /\ h.body = "upstream" /\ ~h.failed
            /\ h.delta = 0 /\ h.writes = 0 /\ h.charged = 0 /\ log = <<>>

\* A text body that reports a priced model and its usage went through.
C34_Witness ==
    \E r \in Reqs :
        /\ AnsweredOther(req[r]) /\ req[r].pc = "done" /\ req[r].q.route = "openai"
        /\ req[r].resp.ev = OpenAIBody
        /\ cost("openai", OpenAIBody.model, OpenAIBody.usage, openrouterModels).cost > 0

\* ------------------------------------------------------ missing usage
\* The body the metering of handler h was called with yields no usage.
MeteredWithoutUsage(h) ==
    /\ h.q.route \in Providers \ {"similarity"} /\ h.q.method # "OPTIONS"
    /\ h.resp.ct = "json"
    /\ ~parse(h.q.route, h.resp.ev).usage.present

\* The metering ended without failing and without a charge.
FreeOfCharge(h) ==
    /\ h.pc = "done" /\ ~h.failed /\ h.status = h.resp.status
    /\ h.delta = 0 /\ h.writes = 0 /\ h.charged = 0 /\ log = <<>>

\* C35: for every adapter, when the response yields no usage, with or
\* without a model, the cost is 0, the cost calculation does not fail and
\* no ledger entry is created or changed.
C35_NoUsageNoCost ==
    \A r \in Reqs : MeteredWithoutUsage(req[r]) => FreeOfCharge(req[r])

\* The same for the OpenAI adapter alone, whose calculator is tokenCost.
C35_TokenCostHalf ==
    \A r \in Reqs :
        (MeteredWithoutUsage(req[r]) /\ req[r].q.route = "openai") => FreeOfCharge(req[r])

\* An OpenAI body that names a priced model and no usage has been metered.
C35_TokenCostHalfWitness ==
    \E r \in Reqs :
        /\ MeteredWithoutUsage(req[r]) /\ req[r].q.route = "openai" /\ req[r].pc = "done"
        /\ req[r].resp.ev = ModelOnly("openai")

\* ------------------------------------------------- precedence of rejections
\* The conditions of the rejections, read off the request q and the state
\* it arrives in.
NoSuchRoute(q) == q.route \notin Providers \cup {"token", "usage", "admin", "proxy"}

BehindAuth(q) == ~NoSuchRoute(q) /\ q.route \notin {"token", "proxy"}

BadToken(q) ==
    LET t == bearerToken(q.header) IN
    ~(/\ t.kind = "jwt" /\ t.key = AIPIPE_SECRET
      /\ (salt[t.email] = Undef \/ t.salt = salt[t.email]))

NotAdmin(q) == q.route = "admin" /\ bearerToken(q.header).email \notin admins

\* The window sum of the bearer's email is at or above its limit.
WindowFull(q) ==
    LET e == bearerToken(q.header).email
        policy == budgetFor(budget, e)
    IN  ledgerCost(ledger[aiPipeCostId(e)], e, policy.days, today) >= policy.limit

OverBudget(q) == q.route \in Providers /\ WindowFull(q)

\* transform was not called for the request of handler h.
NotTransformed(h) == h.upstream = 0 /\ h.input = <<>> /\ h.message # transformError(h.q.route, h.q)

\* The precedence for the routes in the set `routes`.
Precedence(routes) ==
    \A r \in Reqs :
        (req[r].pc = "idle" /\ req'[r].pc # "idle" /\ req'[r].q.method # "OPTIONS"
         /\ req'[r].q.route \in routes)
        => LET h == req'[r]
               q == h.q
           IN  /\ NoSuchRoute(q) => h.status = 404
               /\ (BehindAuth(q) /\ BadToken(q)) => (h.status = 401 /\ NotTransformed(h))
               /\ (BehindAuth(q) /\ ~BadToken(q) /\ NotAdmin(q))
                    => (h.status = 403 /\ NotTransformed(h))
               /\ (BehindAuth(q) /\ ~BadToken(q) /\ OverBudget(q))
                    => (h.status = 429 /\ NotTransformed(h))
               /\ (h.status = 400 /\ q.route \in Providers)
                    => (~BadToken(q) /\ ~OverBudget(q))

\* Every first path segment a request can name.
AllRoutes == {q.route : q \in Requests}

\* C36: rejections have the precedence of the pipeline: 404 for an unknown
\* route before 401 for a missing, invalid or revoked token, before 403 for
\* a non-admin on /admin and 429 for an identity over budget, before any 400
\* of an adapter; a request over budget that names an unpriced model gets
\* 429, and transform is not called for a request that fails authentication
\* or admission.
C36_RejectionPrecedence == [][Precedence(AllRoutes)]_vars

\* The same for every route that is not a name inherited from
\* Object.prototype.
C36_ExceptInherited == [][Precedence(AllRoutes \ ObjectPrototypeKeys)]_vars

\* A request over budget that names an unpriced model was answered 429.
C36_ExceptInheritedWitness ==
    \E r \in Reqs :
        LET h == req[r] IN
        /\ h.pc = "done" /\ h.q.route = "openai" /\ UnknownModel(h.q)
        /\ HasIdentity(h) /\ h.usage >= h.limit /\ h.status = 429

\* ------------------------------------------- usage and admin when over budget
\* C37: GET /usage and the /admin operations are not behind the budget
\* admission: they never answer 429; an identity whose window sum is at or
\* above its limit (a limit of 0 and no matching policy included) gets 200
\* and its usage from /usage, and an admin over budget still reads all
\* usage, mints tokens and sets costs.
C37_NoAdmissionOffProviders ==
    [][\A r \in Reqs :
        (req[r].pc = "idle" /\ req'[r].pc # "idle" /\ req'[r].q.method # "OPTIONS"
         /\ req'[r].q.route \in {"usage", "admin"})
        => LET h == req'[r]
               q == h.q
               e == bearerToken(q.header).email
               policy == budgetFor(budget, e)
               id == aiPipeCostId(e)
           IN  /\ h.status # 429
               /\ (~BadToken(q) /\ WindowFull(q) /\ q.route = "usage")
                    => /\ h.status = 200
                       /\ h.rows = ledgerUsage(ledger[id], e, policy.days, today)
                       /\ h.limit = policy.limit
               /\ (~BadToken(q) /\ WindowFull(q) /\ q.route = "admin" /\ e \in admins)
                    => /\ q.action = "usage" => (h.status = 200 /\ h.body = "rows")
                       /\ q.action = "token"
                            => (/\ h.status = 200 /\ h.body = "token"
                                /\ createToken(q.email, AIPIPE_SECRET, salt[q.email]) \in minted')
                       /\ (q.action = "cost" /\ q.method = "POST")
                            => (/\ h.status = 200
                                /\ ledger'[aiPipeCostId(q.email)][<<q.email, q.date>>] = q.cost)]_vars

\* An admin without a matching policy, whose limit is therefore 0, has set a
\* cost, and a user at the limit has read the usage.
C37_Witness ==
    \E r \in Reqs :
        LET h == req[r] IN
        /\ h.pc = "done" /\ h.q.route = "admin" /\ h.q.action = "cost" /\ h.q.method = "POST"
        /\ h.email = "admin@example.com" /\ budgetFor(budget, h.email).limit = 0
        /\ h.status = 200 /\ h.writes = 1
        /\ Len(log) = 1 /\ log[1].op = "setCost"

\* A user whose window sum is at the limit has read the usage.
C37_UsageWitness ==
    \E r \in Reqs :
        LET h == req[r] IN
        /\ h.pc = "done" /\ h.q.route = "usage" /\ h.email = "user@example.com"
        /\ h.usage >= h.limit /\ h.limit > 0 /\ h.status = 200

\* ------------------------------------------------------------- attribution
\* Metered requests of two identities, some of which name another email and
\* another date in their body.
AttributionRequests ==
    {Request("POST", p, Header(TRUE, Jwt(e, Undef, AIPIPE_SECRET)), Undef, TRUE, PricedModel(p),
             "ok", named, 1, 0, Undef, Undef) :
        p \in {"openai", "similarity"}, e \in {"admin@example.com", "guest@other.org"},
        named \in {Undef, "user@example.com"}}

NextAttribution ==
    \/ \E r \in Reqs : \E q \in AttributionRequests : Receive(r, q)
    \/ \E r \in Reqs : UpstreamRespond(r, Response("json", 200, OpenAIBody))
    \/ \E r \in Reqs : EmbeddingRespond(r, Response("json", 200, OpenAIBody))
    \/ \E r \in Reqs : LedgerAdd(r)
    \/ Tick

SpecAttribution == InitLedger /\ [][NextAttribution]_vars

\* The value of row k of table t, NoNum when there is none.
RowOf(t, k) == IF k \in DOMAIN t THEN t[k] ELSE NoNum

\* The rows of ledger id that a step changes, creates or deletes.
ChangedRows(id) ==
    {k \in DOMAIN ledger[id] \cup DOMAIN ledger'[id] : RowOf(ledger'[id], k) # RowOf(ledger[id], k)}

\* C38: a metered request made with an identity token for email E changes
\* at most the one ledger entry (E, today): every entry of another email and
\* of E on another date is unchanged, whatever the request names in its body.
C38_ChargeGoesToBearerToday ==
    [][\A id \in LedgerNames : \A k \in ChangedRows(id) :
            /\ ChangedRows(id) = {k}
            /\ \E r \in Reqs :
                /\ req[r].pc = "add" /\ req'[r].pc = "done"
                /\ k = <<bearerToken(req[r].q.header).email, today>>
                /\ id = aiPipeCostId(k[1])
                /\ \A other \in LedgerNames \ {id} : ChangedRows(other) = {}]_vars

\* Two identities have been charged, one of them on the second day for a
\* request that names a third email and the first day.
C38_Witness ==
    /\ <<"admin@example.com", 1>> \in DOMAIN ledger["default"]
    /\ <<"guest@other.org", 2>> \in DOMAIN ledger["default"]
    /\ DOMAIN ledger["default"] = {<<"admin@example.com", 1>>, <<"guest@other.org", 2>>}
    /\ \E r \in Reqs :
        /\ req[r].pc = "done" /\ req[r].writes = 1 /\ req[r].email = "guest@other.org"
        /\ req[r].q.email = "user@example.com" /\ req[r].q.date = 1

\* ------------------------------------------------- credential separation
\* Handler h has sent the outbound request of a provider route.
Forwarded(h) == h.q.route \in Providers /\ h.upstream >= 1 /\ HasIdentity(h)

\* The provider keys and the signing secret the worker holds.
ServerKeys ==
    {ServerKey(n) : n \in {"OPENROUTER_API_KEY", "OPENAI_API_KEY", "GEMINI_API_KEY", AIPIPE_SECRET}}

\* C39: no header of the upstream request of an identity-token request, the
\* embeddings call of the similarity route included, holds the caller's
\* token: Authorization carries the server key or is removed; and no answer
\* the worker builds holds a provider key or the signing secret.
C39_CredentialSeparation ==
    \A r \in Reqs :
        LET h == req[r] IN
        /\ Forwarded(h) =>
            /\ \A k \in DOMAIN h.sent : h.sent[k] # credOf(h)
            /\ h.sent[keyHeader(h.q.route)] \in ServerKeys
            /\ h.q.route = "geminiv1beta" => "authorization" \notin DOMAIN h.sent
        /\ h.shown \cap ServerKeys = {}
        /\ \A c \in h.shown : c.kind = "jwt"

\* An OpenAI request with the user's token went upstream with the server key
\* in Authorization.
C39_Witness ==
    \E r \in Reqs :
        LET h == req[r] IN
        /\ Forwarded(h) /\ h.q.route = "openai" /\ credOf(h).kind = "jwt"
        /\ h.q.header.present
        /\ h.sent["authorization"] = ServerKey("OPENAI_API_KEY")
        /\ "cf-ray" \notin DOMAIN h.sent

\* --------------------------------------------------------- aborted streams
NextAbort ==
    \/ \E q \in SplitterRequests : Receive(1, q)
    \/ UpstreamRespond(1, Response("sse", 200, EmptyEvent))
    \/ \E c \in SplitterChunks(req[1].q.route) : SseChunk(1, c)
    \/ SseFlush(1)
    \/ SseAbort(1)
    \/ LedgerAdd(1)

SpecAbort == Init /\ [][NextAbort]_vars

\* The SSE body of handler h did not run to its end.
Aborted(h) == Streams(h) /\ h.body = "aborted"

\* C40: when an SSE response does not run to its end, the metering callback
\* is called zero times and the ledger is unchanged, even when a frame with
\* model and usage was forwarded; the metering never fires before the end of
\* the stream.
C40_AbortedStreamUnmetered ==
    /\ [](\A r \in Reqs :
            LET h == req[r] IN
            /\ Aborted(h) =>
                /\ h.pc = "done" /\ h.sse.calls = 0
                /\ h.delta = 0 /\ h.writes = 0 /\ h.charged = 0 /\ log = <<>>
            /\ (Streams(h) /\ h.pc = "stream") => (h.sse.calls = 0 /\ log = <<>>))
    /\ [][\A r \in Reqs :
            (Streams(req[r]) /\ req'[r].sse.calls # req[r].sse.calls)
                => (req[r].pc = "stream" /\ req'[r].pc # "stream" /\ ~Aborted(req'[r]))]_vars

\* A stream was cut after a frame with a priced model and a frame with usage
\* had been forwarded.
C40_Witness ==
    \E r \in Reqs :
        LET h == req[r] IN
        /\ Aborted(h) /\ Len(h.out) = 2
        /\ h.sse.model = PricedModel(h.q.route) /\ h.sse.usage.present
        /\ cost(h.q.route, h.sse.model, h.sse.usage, openrouterDirectory).cost > 0

====
